---------------------------- MODULE Spec2Model ----------------------------
(***************************************************************************)
(* A model of the chunking engine of the PDF extraction and query          *)
(* pipeline: LangChainChunker (src/src/chunking/langchain_chunker.py),     *)
(* together with the two text splitters it drives.                         *)
(*                                                                         *)
(* Text is modelled character by character: a string is a sequence of      *)
(* one-character strings, so that stripping, splitting, prefix tests and   *)
(* formatting are computed the way the Python code computes them.          *)
(* A metadata mapping is a function whose domain is the set of its keys.   *)
(***************************************************************************)
EXTENDS Integers, Sequences, FiniteSets, TLC

(***************************************************************************)
(* Bounds of the model.                                                    *)
(***************************************************************************)
\* the number of blocks (lines, or headings with a body) of an input text
MaxBlocks == 3
\* the largest chunk size and overlap configured: the size of the settings
MaxSize == 7
\* the largest number of lines of a page handed to the line reconstruction
MaxLines == 3

(***************************************************************************)
(* Characters and Python's str operations.                                 *)
(***************************************************************************)
NL == "\n"
SP == " "
Whitespace == {SP, NL}
UpperChars == {"A", "B", "C", "D", "S"}
DigitChars == {"0", "1", "2", "3", "4", "5", "6", "7", "8", "9"}

\* str.lower() on one character
LowerChar(c) ==
    CASE c = "A" -> "a"
      [] c = "B" -> "b"
      [] c = "C" -> "c"
      [] c = "D" -> "d"
      [] c = "S" -> "s"
      [] OTHER -> c

\* str.lower()
Lower(s) == [i \in 1..Len(s) |-> LowerChar(s[i])]

\* s[from:] with a 1-based index
Drop(s, n) == IF n >= Len(s) THEN <<>> ELSE SubSeq(s, n + 1, Len(s))
\* s[:n]
Take(s, n) == IF n <= 0 THEN <<>> ELSE SubSeq(s, 1, IF n > Len(s) THEN Len(s) ELSE n)

\* str.startswith(p)
StartsWith(s, p) == Len(p) <= Len(s) /\ Take(s, Len(p)) = p
\* str.endswith(p)
EndsWith(s, p) == Len(p) <= Len(s) /\ Drop(s, Len(s) - Len(p)) = p

RECURSIVE LStrip(_)
LStrip(s) == IF s # <<>> /\ Head(s) \in Whitespace THEN LStrip(Tail(s)) ELSE s
RECURSIVE RStrip(_)
RStrip(s) ==
    IF s # <<>> /\ s[Len(s)] \in Whitespace THEN RStrip(Take(s, Len(s) - 1)) ELSE s
\* str.strip()
Strip(s) == RStrip(LStrip(s))

\* the index of the first occurrence of sep in s at or after position from, 0 if none
RECURSIVE FindFrom(_, _, _)
FindFrom(s, sep, from) ==
    IF from + Len(sep) - 1 > Len(s) THEN 0
    ELSE IF SubSeq(s, from, from + Len(sep) - 1) = sep THEN from
    ELSE FindFrom(s, sep, from + 1)

\* sep in s, for a non-empty sep
Contains(s, sep) == FindFrom(s, sep, 1) # 0

\* str.split(sep) for a non-empty sep: the pieces between the leftmost
\* non-overlapping occurrences of sep, empty pieces included
RECURSIVE SplitOn(_, _)
SplitOn(s, sep) ==
    LET i == FindFrom(s, sep, 1)
    IN  IF i = 0 THEN <<s>>
        ELSE <<Take(s, i - 1)>> \o SplitOn(Drop(s, i + Len(sep) - 1), sep)

\* sep.join(parts)
RECURSIVE Join(_, _)
Join(parts, sep) ==
    IF parts = <<>> THEN <<>>
    ELSE IF Len(parts) = 1 THEN parts[1]
    ELSE parts[1] \o sep \o Join(Tail(parts), sep)

\* str(n) for n >= 0
RECURSIVE Str(_)
Str(n) ==
    LET d == CASE n % 10 = 0 -> "0" [] n % 10 = 1 -> "1" [] n % 10 = 2 -> "2"
               [] n % 10 = 3 -> "3" [] n % 10 = 4 -> "4" [] n % 10 = 5 -> "5"
               [] n % 10 = 6 -> "6" [] n % 10 = 7 -> "7" [] n % 10 = 8 -> "8"
               [] OTHER -> "9"
    IN  IF n < 10 THEN <<d>> ELSE Str(n \div 10) \o <<d>>

Min(a, b) == IF a < b THEN a ELSE b

\* a mapping without one key (dict.pop)
Without(m, k) == [x \in (DOMAIN m) \ {k} |-> m[x]]
\* {**a, **b}: the keys of both, b's value where both have the key
Merged(a, b) == b @@ a
\* the mapping a with key k set to v
With(m, k, v) == (k :> v) @@ m
EmptyMap == <<>>

(***************************************************************************)
(* RecursiveCharacterTextSplitter, as the chunker configures it            *)
(* (length_function = len, separators = CHUNK_SEPARATORS, and the          *)
(* splitter's defaults keep_separator = True, strip_whitespace = True).    *)
(***************************************************************************)
\* config/constants.py: CHUNK_SEPARATORS = ["\n\n", "\n", ". ", " ", ""]
CHUNK_SEPARATORS == << <<NL, NL>>, <<NL>>, <<".", SP>>, <<SP>>, <<>> >>

\* The splitter's constructor raises ValueError for an overlap larger than
\* the chunk size.
SplitterRaises(chunk_size, chunk_overlap) == chunk_overlap > chunk_size

\* _split_text_with_regex(text, separator, keep_separator=True): the text
\* before the first separator, then each separator with the text after it;
\* empty pieces are dropped.  The empty separator gives the characters.
SplitKeepingSeparator(text, separator) ==
    IF separator = <<>> THEN [i \in 1..Len(text) |-> <<text[i]>>]
    ELSE LET parts  == SplitOn(text, separator)
             pieces == [i \in 1..Len(parts) |->
                           IF i = 1 THEN parts[1] ELSE separator \o parts[i]]
         IN  SelectSeq(pieces, LAMBDA p : p # <<>>)

\* _join_docs(docs, ""): the concatenation, stripped; None (here <<>>) when
\* nothing is left
JoinDocs(docs) == Strip(Join(docs, <<>>))

\* the popping loop of _merge_splits: drop pieces from the front of the
\* current document while it is longer than the overlap, or while the next
\* piece does not fit and something is left
RECURSIVE PopFront(_, _, _, _, _)
PopFront(current_doc, total, len, chunk_size, chunk_overlap) ==
    IF total > chunk_overlap \/ (total + len > chunk_size /\ total > 0)
    THEN PopFront(Tail(current_doc), total - Len(Head(current_doc)),
                  len, chunk_size, chunk_overlap)
    ELSE [current_doc |-> current_doc, total |-> total]

\* _merge_splits(splits, ""), as a fold over the splits; st holds docs,
\* current_doc and total
RECURSIVE MergeFold(_, _, _, _)
MergeFold(splits, st, chunk_size, chunk_overlap) ==
    IF splits = <<>>
    THEN LET doc == JoinDocs(st.current_doc)
         IN  IF doc # <<>> THEN Append(st.docs, doc) ELSE st.docs
    ELSE LET d    == Head(splits)
             len  == Len(d)
             over == st.total + len > chunk_size
             doc  == JoinDocs(st.current_doc)
             docs == IF over /\ st.current_doc # <<>> /\ doc # <<>>
                     THEN Append(st.docs, doc) ELSE st.docs
             kept == IF over /\ st.current_doc # <<>>
                     THEN PopFront(st.current_doc, st.total, len,
                                   chunk_size, chunk_overlap)
                     ELSE [current_doc |-> st.current_doc, total |-> st.total]
         IN  MergeFold(Tail(splits),
                       [docs |-> docs,
                        current_doc |-> Append(kept.current_doc, d),
                        total |-> kept.total + len],
                       chunk_size, chunk_overlap)

MergeSplits(splits, chunk_size, chunk_overlap) ==
    MergeFold(splits, [docs |-> <<>>, current_doc |-> <<>>, total |-> 0],
              chunk_size, chunk_overlap)

\* the separator _split_text picks: the first of the list that is empty or
\* occurs in the text, with the separators after it (none after the empty one)
RECURSIVE PickSeparator(_, _)
PickSeparator(text, separators) ==
    IF separators = <<>> THEN [separator |-> <<>>, rest |-> <<>>]
    ELSE IF Head(separators) = <<>> THEN [separator |-> <<>>, rest |-> <<>>]
    ELSE IF Contains(text, Head(separators))
         THEN [separator |-> Head(separators), rest |-> Tail(separators)]
    ELSE IF Len(separators) = 1
         THEN [separator |-> Head(separators), rest |-> <<>>]
    ELSE PickSeparator(text, Tail(separators))

\* _split_text(text, separators): pieces shorter than the chunk size are
\* collected and merged; a longer piece is split with the next separators,
\* or taken as it is when none is left
RECURSIVE SplitText(_, _, _, _)
RECURSIVE SplitFold(_, _, _, _, _, _)
SplitFold(splits, good, final, rest, chunk_size, chunk_overlap) ==
    IF splits = <<>>
    THEN IF good # <<>>
         THEN final \o MergeSplits(good, chunk_size, chunk_overlap)
         ELSE final
    ELSE LET s == Head(splits)
         IN  IF Len(s) < chunk_size
             THEN SplitFold(Tail(splits), Append(good, s), final, rest,
                            chunk_size, chunk_overlap)
             ELSE LET merged == IF good # <<>>
                                THEN final \o MergeSplits(good, chunk_size, chunk_overlap)
                                ELSE final
                      deeper == IF rest = <<>> THEN <<s>>
                                ELSE SplitText(s, rest, chunk_size, chunk_overlap)
                  IN  SplitFold(Tail(splits), <<>>, merged \o deeper, rest,
                                chunk_size, chunk_overlap)

SplitText(text, separators, chunk_size, chunk_overlap) ==
    LET pick == PickSeparator(text, separators)
    IN  SplitFold(SplitKeepingSeparator(text, pick.separator), <<>>, <<>>,
                  pick.rest, chunk_size, chunk_overlap)

\* RecursiveCharacterTextSplitter(chunk_size, chunk_overlap, len,
\* CHUNK_SEPARATORS).split_text(text)
RecursiveSplit(text, chunk_size, chunk_overlap) ==
    SplitText(text, CHUNK_SEPARATORS, chunk_size, chunk_overlap)

(***************************************************************************)
(* MarkdownHeaderTextSplitter, as the chunker configures it                *)
(* (headers_to_split_on = ##, ###, ####, and the splitter's defaults       *)
(* strip_headers = True, return_each_line = False).  The input texts of    *)
(* this model hold no code fence, so the splitter is never inside a code   *)
(* block.                                                                  *)
(***************************************************************************)
\* langchain_chunker.py: headers_to_split_on, in the order the splitter
\* tries them (longest marker first)
HeadersToSplitOn ==
    << [sep |-> <<"#", "#", "#", "#">>, name |-> "subsubsection"],
       [sep |-> <<"#", "#", "#">>,      name |-> "subsection"],
       [sep |-> <<"#", "#">>,           name |-> "section"] >>

\* the line starts with the marker, and the marker is the whole line or is
\* followed by a space
IsHeaderFor(stripped_line, sep) ==
    /\ StartsWith(stripped_line, sep)
    /\ (Len(stripped_line) = Len(sep) \/ stripped_line[Len(sep) + 1] = SP)

\* the index in HeadersToSplitOn of the first marker the line matches, 0 if none
HeaderIndex(stripped_line) ==
    IF IsHeaderFor(stripped_line, HeadersToSplitOn[1].sep) THEN 1
    ELSE IF IsHeaderFor(stripped_line, HeadersToSplitOn[2].sep) THEN 2
    ELSE IF IsHeaderFor(stripped_line, HeadersToSplitOn[3].sep) THEN 3
    ELSE 0

\* a pop that takes off the headers of the same level only and leaves the
\* deeper ones (a variant for comparison)
RECURSIVE PopHeadersSameLevel(_, _, _)
PopHeadersSameLevel(header_stack, initial_metadata, level) ==
    IF header_stack # <<>> /\ header_stack[Len(header_stack)].level = level
    THEN PopHeadersSameLevel(Take(header_stack, Len(header_stack) - 1),
                             Without(initial_metadata, header_stack[Len(header_stack)].name),
                             level)
    ELSE [header_stack |-> header_stack, initial_metadata |-> initial_metadata]

\* pop the headers of the same or a deeper level off the stack, clearing
\* each popped header's key in the metadata
RECURSIVE PopHeaders(_, _, _)
PopHeaders(header_stack, initial_metadata, level) ==
    IF header_stack # <<>> /\ header_stack[Len(header_stack)].level >= level
    THEN PopHeaders(Take(header_stack, Len(header_stack) - 1),
                    Without(initial_metadata, header_stack[Len(header_stack)].name),
                    level)
    ELSE [header_stack |-> header_stack, initial_metadata |-> initial_metadata]

\* one line of split_text's loop; st holds lines_with_metadata,
\* current_content, current_metadata, header_stack and initial_metadata
MdLine(st, line) ==
    LET stripped_line == SelectSeq(Strip(line), LAMBDA c : c # NL)
        h       == HeaderIndex(stripped_line)
        flushed == IF st.current_content # <<>>
                   THEN Append(st.lines_with_metadata,
                               [content  |-> Join(st.current_content, <<NL>>),
                                metadata |-> st.current_metadata])
                   ELSE st.lines_with_metadata
    IN  IF h # 0
        THEN LET sep    == HeadersToSplitOn[h].sep
                 name   == HeadersToSplitOn[h].name
                 level  == Len(sep)
                 popped == PopHeaders(st.header_stack, st.initial_metadata, level)
                 data   == Strip(Drop(stripped_line, Len(sep)))
                 meta   == With(popped.initial_metadata, name, data)
             IN  [lines_with_metadata |-> flushed,
                  current_content     |-> <<>>,
                  current_metadata    |-> meta,
                  header_stack        |-> Append(popped.header_stack,
                                                 [level |-> level, name |-> name, data |-> data]),
                  initial_metadata    |-> meta]
        ELSE IF stripped_line # <<>>
        THEN [st EXCEPT !.current_content = Append(@, stripped_line),
                        !.current_metadata = st.initial_metadata]
        ELSE [st EXCEPT !.lines_with_metadata = flushed,
                        !.current_content = <<>>,
                        !.current_metadata = st.initial_metadata]

RECURSIVE MdLines(_, _)
MdLines(st, lines) ==
    IF lines = <<>> THEN st ELSE MdLines(MdLine(st, Head(lines)), Tail(lines))

\* aggregate_lines_to_chunks: consecutive blocks with equal metadata become
\* one document, joined by two spaces and a newline
RECURSIVE AggregateLinesToChunks(_, _)
AggregateLinesToChunks(lines, aggregated) ==
    IF lines = <<>> THEN aggregated
    ELSE LET line == Head(lines)
             n    == Len(aggregated)
         IN  IF n > 0 /\ aggregated[n].metadata = line.metadata
             THEN AggregateLinesToChunks(Tail(lines),
                      [aggregated EXCEPT ![n].page_content =
                           @ \o <<SP, SP, NL>> \o line.content])
             ELSE AggregateLinesToChunks(Tail(lines),
                      Append(aggregated, [page_content |-> line.content,
                                          metadata     |-> line.metadata]))

\* MarkdownHeaderTextSplitter(headers_to_split_on).split_text(text): the
\* documents (page_content, metadata) of the text
MarkdownSplit(text) ==
    LET st  == MdLines([lines_with_metadata |-> <<>>, current_content |-> <<>>,
                        current_metadata |-> EmptyMap, header_stack |-> <<>>,
                        initial_metadata |-> EmptyMap],
                       SplitOn(text, <<NL>>))
        all == IF st.current_content # <<>>
               THEN Append(st.lines_with_metadata,
                           [content  |-> Join(st.current_content, <<NL>>),
                            metadata |-> st.current_metadata])
               ELSE st.lines_with_metadata
    IN  AggregateLinesToChunks(all, <<>>)

(***************************************************************************)
(* LangChainChunker: the linearizer (_convert_to_markdown).                *)
(***************************************************************************)
\* the length of the longest prefix of s made of digits (\d+, greedy)
RECURSIVE DigitRun(_)
DigitRun(s) == IF s # <<>> /\ Head(s) \in DigitChars THEN 1 + DigitRun(Tail(s)) ELSE 0

\* the length of the longest prefix of s made of whitespace (\s+, greedy)
RECURSIVE SpaceRun(_)
SpaceRun(s) == IF s # <<>> /\ Head(s) \in Whitespace THEN 1 + SpaceRun(Tail(s)) ELSE 0

\* the length of the prefix of s matching \d+(\.\d+){parts-1}, 0 if none
RECURSIVE NumberPrefix(_, _)
NumberPrefix(s, parts) ==
    LET d == DigitRun(s)
    IN  IF d = 0 THEN 0
        ELSE IF parts = 1 THEN d
        ELSE IF Len(s) > d /\ s[d + 1] = "."
             THEN LET more == NumberPrefix(Drop(s, d + 1), parts - 1)
                  IN  IF more = 0 THEN 0 ELSE d + 1 + more
        ELSE 0

\* \s+(.+)$ on s: the whitespace run takes all it can and gives one
\* character back when nothing else is left for the title
TitleAfterSpace(s) ==
    LET w == SpaceRun(s)
    IN  IF w = 0 THEN [match |-> FALSE, title |-> <<>>]
        ELSE IF Len(s) > w THEN [match |-> TRUE, title |-> Drop(s, w)]
        ELSE IF w >= 2 THEN [match |-> TRUE, title |-> <<s[w]>>]
        ELSE [match |-> FALSE, title |-> <<>>]

\* re.match(r'^(\d+\.\d+\.\d+)\.?\s+(.+)$', line) for parts = 3,
\* re.match(r'^(\d+\.\d+)\.?\s+(.+)$', line) for parts = 2 (dot optional),
\* re.match(r'^(\d+)\.\s+(.+)$', line) for parts = 1 (dot required)
MatchNumbered(line, parts) ==
    LET p      == NumberPrefix(line, parts)
        rest   == Drop(line, p)
        dotted == rest # <<>> /\ Head(rest) = "."
        withDot == TitleAfterSpace(Tail(rest))
        noDot   == TitleAfterSpace(rest)
        none    == [match |-> FALSE, number |-> <<>>, title |-> <<>>]
    IN  IF p = 0 THEN none
        ELSE IF dotted /\ withDot.match
             THEN [match |-> TRUE, number |-> Take(line, p), title |-> withDot.title]
        ELSE IF parts > 1 /\ noDot.match
             THEN [match |-> TRUE, number |-> Take(line, p), title |-> noDot.title]
        ELSE none

\* the suffixes _is_likely_section_header rejects
ContinuationEndings ==
    { <<",">>, <<"a", "n", "d">>, <<"o", "r">>, <<"t", "h", "e">>, <<"a">>,
      <<"a", "n">>, <<"o", "f">>, <<"t", "o">>, <<"i", "n">> }
ContinuationPhrases ==
    { <<"a", "p", "p", "l", "i", "c", "a", "b", "l", "e", " ", "t", "o">>,
      <<"c", "o", "n", "d", "i", "t", "i", "o", "n", "s">>,
      <<"p", "r", "o", "c", "e", "d", "u", "r", "e", "s">>,
      <<"i", "n", "c", "l", "u", "d", "i", "n", "g">> }
\* a header title is at most this long
MaxTitleLength == 100

\* _is_likely_section_header(text)
IsLikelySectionHeader(title) ==
    LET text == Strip(title)
    IN  /\ text # <<>>
        /\ text[1] \in UpperChars
        /\ ~(Len(text) > MaxTitleLength)
        /\ ~(\E e \in ContinuationEndings : EndsWith(text, e))
        /\ ~(\E w \in ContinuationPhrases : EndsWith(Lower(text), w))

\* a conversion that does not ask whether the title looks like a header (a
\* variant for comparison)
ConvertLineUnchecked(line) ==
    LET m3 == MatchNumbered(line, 3)
        m2 == MatchNumbered(line, 2)
        m1 == MatchNumbered(line, 1)
    IN  IF m3.match
        THEN <<"#", "#", "#", "#", SP>> \o m3.number \o <<SP>> \o m3.title
        ELSE IF m2.match
        THEN <<"#", "#", "#", SP>> \o m2.number \o <<SP>> \o m2.title
        ELSE IF m1.match
        THEN <<"#", "#", SP>> \o m1.number \o <<".", SP>> \o m1.title
        ELSE line

\* one line of _convert_to_markdown
ConvertLine(line) ==
    LET m3 == MatchNumbered(line, 3)
        m2 == MatchNumbered(line, 2)
        m1 == MatchNumbered(line, 1)
    IN  IF m3.match /\ IsLikelySectionHeader(m3.title)
        THEN <<"#", "#", "#", "#", SP>> \o m3.number \o <<SP>> \o m3.title
        ELSE IF m2.match /\ IsLikelySectionHeader(m2.title)
        THEN <<"#", "#", "#", SP>> \o m2.number \o <<SP>> \o m2.title
        ELSE IF m1.match /\ IsLikelySectionHeader(m1.title)
        THEN <<"#", "#", SP>> \o m1.number \o <<".", SP>> \o m1.title
        ELSE line

\* _convert_to_markdown(text)
ConvertToMarkdown(text) ==
    LET lines == SplitOn(text, <<NL>>)
    IN  Join([i \in 1..Len(lines) |-> ConvertLine(lines[i])], <<NL>>)

(***************************************************************************)
(* LangChainChunker: construction and chunking.                            *)
(*                                                                         *)
(* An optional argument is a record: none = TRUE for None, else its value. *)
(* A call's outcome is a record: raised (an exception reached the caller), *)
(* chunks (the list returned) and splitters (the size and overlap of each  *)
(* RecursiveCharacterTextSplitter the call constructed, with the method    *)
(* that constructed it).                                                   *)
(***************************************************************************)
None == [none |-> TRUE, value |-> 0]
Some(v) == [none |-> FALSE, value |-> v]
NoneMetadata == [none |-> TRUE, value |-> EmptyMap]

\* Python's "arg or default" for an optional integer: None and 0 are falsy
OrDefault(arg, default) == IF arg.none \/ arg.value = 0 THEN default ELSE arg.value

\* LangChainChunker.__init__
NewChunker(max_chunk_size, chunk_overlap, use_section_awareness, cfg) ==
    [max_chunk_size        |-> OrDefault(max_chunk_size, cfg.max_chunk_size),
     chunk_overlap         |-> OrDefault(chunk_overlap, cfg.chunk_overlap),
     use_section_awareness |-> use_section_awareness]

\* Python's "arg or default" for an optional string: None and "" are falsy
OrDefaultType(arg, default) == IF arg.none \/ arg.value = "" THEN default ELSE arg.value

\* chunking.factory.create_chunker
CreateChunker(chunker_type, max_chunk_size, chunk_overlap, cfg) ==
    LET chunk_type == OrDefaultType(chunker_type, cfg.chunker_type)
        chunk_size == OrDefault(max_chunk_size, cfg.max_chunk_size)
        overlap    == OrDefault(chunk_overlap, cfg.chunk_overlap)
    IN  IF chunk_type = "langchain"
        THEN [raised |-> FALSE,
              chunker |-> NewChunker(Some(chunk_size), Some(overlap), TRUE, cfg)]
        ELSE IF chunk_type = "langchain_simple"
        THEN [raised |-> FALSE,
              chunker |-> NewChunker(Some(chunk_size), Some(overlap), FALSE, cfg)]
        ELSE [raised |-> TRUE,
              chunker |-> NewChunker(Some(chunk_size), Some(overlap), FALSE, cfg)]

\* a chunk dictionary whose text is stripped (a variant for comparison)
ChunkDictStripped(text, metadata) ==
    [text |-> Strip(text), metadata |-> metadata, chunk_size |-> Len(Strip(text))]

\* a chunk dictionary whose size is that of the stripped text (a variant for
\* comparison)
ChunkDictStrippedSize(text, metadata) ==
    [text |-> text, metadata |-> metadata, chunk_size |-> Len(Strip(text))]

\* a chunk dictionary
ChunkDict(text, metadata) ==
    [text |-> text, metadata |-> metadata, chunk_size |-> Len(text)]

\* f"{i}/{n}"
ChunkPart(i, n) == Str(i) \o <<"/">> \o Str(n)

\* the configured overlap, not clamped (a variant for comparison)
SplitOverlapUnclamped(self) == self.chunk_overlap

\* the overlap _split_large_chunk hands to its splitter
SplitOverlap(self) == Min(self.chunk_overlap, self.max_chunk_size - 1)

\* sub-chunks numbered from 0 (a variant for comparison)
SubChunksZeroBased(sub_texts, base_metadata) ==
    [i \in 1..Len(sub_texts) |->
        ChunkDict(sub_texts[i],
                  With(With(base_metadata, "chunk_part", ChunkPart(i - 1, Len(sub_texts))),
                       "is_split_chunk", TRUE))]

\* the sub-chunks _split_large_chunk builds from the splitter's pieces
SubChunks(sub_texts, base_metadata) ==
    [i \in 1..Len(sub_texts) |->
        ChunkDict(sub_texts[i],
                  With(With(base_metadata, "chunk_part", ChunkPart(i, Len(sub_texts))),
                       "is_split_chunk", TRUE))]

\* _split_large_chunk(text, base_metadata)
SplitLargeChunk(self, text, base_metadata) ==
    LET overlap == SplitOverlap(self)
        made    == [chunk_size |-> self.max_chunk_size, chunk_overlap |-> overlap,
                    by |-> "_split_large_chunk"]
    IN  IF SplitterRaises(self.max_chunk_size, overlap)
        THEN [raised |-> TRUE, chunks |-> <<>>, splitters |-> <<made>>]
        ELSE [raised |-> FALSE,
              chunks |-> SubChunks(RecursiveSplit(text, self.max_chunk_size, overlap),
                                   base_metadata),
              splitters |-> <<made>>]

\* the chunks _fallback_chunk builds from the splitter's pieces
FallbackChunks(texts, base_metadata) ==
    [i \in 1..Len(texts) |->
        ChunkDict(texts[i],
                  With(With(base_metadata, "chunk_index", i - 1),
                       "is_fallback_chunk", TRUE))]

\* _fallback_chunk(text, base_metadata)
FallbackChunk(self, text, base_metadata) ==
    LET made == [chunk_size |-> self.max_chunk_size, chunk_overlap |-> self.chunk_overlap,
                 by |-> "_fallback_chunk"]
    IN  IF SplitterRaises(self.max_chunk_size, self.chunk_overlap)
        THEN [raised |-> TRUE, chunks |-> <<>>, splitters |-> <<made>>]
        ELSE [raised |-> FALSE,
              chunks |-> FallbackChunks(
                             RecursiveSplit(text, self.max_chunk_size, self.chunk_overlap),
                             base_metadata),
              splitters |-> <<made>>]

SectionPrefix == <<"S", "e", "c", "t", "i", "o", "n", ":", " ">>
SubsectionPrefix == <<"S", "u", "b", "s", "e", "c", "t", "i", "o", "n", ":", " ">>
SubsubsectionPrefix ==
    <<"S", "u", "b", "-", "s", "u", "b", "s", "e", "c", "t", "i", "o", "n", ":", " ">>

\* the context parts _add_section_hierarchy collects for one chunk
ContextParts(metadata) ==
    (IF "section" \in DOMAIN metadata
     THEN <<SectionPrefix \o metadata["section"]>> ELSE <<>>)
    \o (IF "subsection" \in DOMAIN metadata
        THEN <<SubsectionPrefix \o metadata["subsection"]>> ELSE <<>>)
    \o (IF "subsubsection" \in DOMAIN metadata
        THEN <<SubsubsectionPrefix \o metadata["subsubsection"]>> ELSE <<>>)

\* _add_section_hierarchy(chunks)
AddSectionHierarchy(chunks) ==
    [i \in 1..Len(chunks) |->
        LET parts == ContextParts(chunks[i].metadata)
        IN  IF parts # <<>>
            THEN [chunks[i] EXCEPT !.metadata =
                     With(@, "section_hierarchy", Join(parts, <<SP, ">", SP>>))]
            ELSE chunks[i]]

\* size tests that are off by one (variants for comparison)
IsOversizedOffByOne(self, chunk_text) == Len(chunk_text) > self.max_chunk_size + 1
IsOversizedInclusive(self, chunk_text) == Len(chunk_text) >= self.max_chunk_size

\* the size test of chunk()'s loop: is this section split?
IsOversized(self, chunk_text) == Len(chunk_text) > self.max_chunk_size

\* the loop of chunk() over the header chunks, as a fold; acc is the outcome
\* so far
RECURSIVE ProcessHeaderChunks(_, _, _, _)
ProcessHeaderChunks(self, header_chunks, base_metadata, acc) ==
    IF header_chunks = <<>> \/ acc.raised THEN acc
    ELSE LET chunk          == Head(header_chunks)
             chunk_text     == chunk.page_content
             chunk_metadata == Merged(base_metadata, chunk.metadata)
         IN  IF IsOversized(self, chunk_text)
             THEN LET sub == SplitLargeChunk(self, chunk_text, chunk_metadata)
                  IN  ProcessHeaderChunks(self, Tail(header_chunks), base_metadata,
                          [raised    |-> sub.raised,
                           chunks    |-> acc.chunks \o sub.chunks,
                           splitters |-> acc.splitters \o sub.splitters])
             ELSE ProcessHeaderChunks(self, Tail(header_chunks), base_metadata,
                      [acc EXCEPT !.chunks =
                          Append(@, ChunkDict(chunk_text,
                                      With(chunk_metadata, "is_split_chunk", FALSE)))])

\* the blank test without the strip (a variant for comparison)
IsBlankNoStrip(text) == text = <<>>

\* "not text or not text.strip()"
IsBlank(text) == text = <<>> \/ Strip(text) = <<>>

\* "metadata or {}"
BaseMetadata(metadata) == IF metadata.none THEN EmptyMap ELSE metadata.value

\* chunk(text, metadata); splitter_fails tells whether the markdown splitter
\* raises on the linearized text
ChunkCall(self, text, metadata, splitter_fails) ==
    LET base_metadata == BaseMetadata(metadata)
        nothing == [raised |-> FALSE, chunks |-> <<>>, splitters |-> <<>>]
    IN  IF IsBlank(text) THEN nothing
        ELSE IF ~self.use_section_awareness
        THEN FallbackChunk(self, text, base_metadata)
        ELSE IF splitter_fails
        THEN FallbackChunk(self, text, base_metadata)
        ELSE LET done == ProcessHeaderChunks(self,
                             MarkdownSplit(ConvertToMarkdown(text)),
                             base_metadata, nothing)
             IN  IF done.raised THEN [done EXCEPT !.chunks = <<>>]
                 ELSE [done EXCEPT !.chunks = AddSectionHierarchy(@)]

\* [chunk['text'] for chunk in chunks]
TextsOfChunks(chunks) == [i \in 1..Len(chunks) |-> chunks[i].text]

\* the caller's mapping when the chunks are written into the mapping handed
\* in and not into a copy of it (a variant for comparison)
CallerMetadataWritten(self, text, metadata, splitter_fails) ==
    LET chunks == ChunkCall(self, text, metadata, splitter_fails).chunks
    IN  IF metadata.none \/ chunks = <<>> THEN metadata
        ELSE [none |-> FALSE, value |-> chunks[Len(chunks)].metadata]

\* the caller's mapping after chunk(text, metadata): base_metadata is the
\* caller's object, and every write of chunk() and its helpers goes to a
\* fresh mapping ({**base_metadata, ...}) or to a copy (base_metadata.copy())
CallerMetadata(self, text, metadata, splitter_fails) == metadata

(***************************************************************************)
(* FormattingExtractor (src/src/extraction/formatting_extractor.py): the   *)
(* line records it makes of a page, the merge of lines broken by wrapping, *)
(* and the re-evaluation of the header flag of each reconstructed line.    *)
(* A line record is a function with the keys text, page, font_size,        *)
(* is_bold, is_all_caps, is_larger and is_likely_header.  Font sizes are   *)
(* whole points.                                                           *)
(***************************************************************************)
LowerChars ==
    {"a", "b", "c", "d", "e", "f", "g", "h", "i", "j", "k", "l", "m", "n",
     "o", "p", "q", "r", "s", "t", "u", "v", "w", "x", "y", "z"}

\* str.isupper(): some cased character, and no lowercase one
IsUpperStr(s) ==
    /\ \E i \in 1..Len(s) : s[i] \in UpperChars
    /\ \A i \in 1..Len(s) : s[i] \notin LowerChars

\* str.count(c) for one character
Count(s, c) == Cardinality({i \in 1..Len(s) : s[i] = c})

\* the length of the longest prefix of s made of lowercase letters
RECURSIVE LowerRun(_)
LowerRun(s) == IF s # <<>> /\ Head(s) \in LowerChars THEN 1 + LowerRun(Tail(s)) ELSE 0

Abs(n) == IF n < 0 THEN -n ELSE n

\* the thresholds of _extract_formatted_lines
MinAllCapsLength == 3
ShortLineLength == 80

\* re.match(r'^[\d\w]', line_text)
StartsWithWordChar(s) ==
    s # <<>> /\ s[1] \in DigitChars \cup UpperChars \cup LowerChars \cup {"_"}

\* the record _extract_formatted_lines makes of one line with text (the
\* spans' text joined), page number, average font size and bold flag, on a
\* page whose normal font size is normal_font_size; a line whose text is
\* blank gives no record
FormattedLine(raw_text, page_num, avg_font_size, is_bold, normal_font_size) ==
    LET line_text   == Strip(raw_text)
        is_all_caps == IsUpperStr(line_text) /\ Len(line_text) > MinAllCapsLength
        is_larger   == avg_font_size > normal_font_size
        is_short    == Len(line_text) < ShortLineLength
    IN  [text             |-> line_text,
         page             |-> page_num,
         font_size        |-> avg_font_size,
         is_bold          |-> is_bold,
         is_all_caps      |-> is_all_caps,
         is_larger        |-> is_larger,
         is_likely_header |-> \/ (is_bold /\ is_all_caps)
                              \/ (is_bold /\ is_larger)
                              \/ (is_bold /\ is_short /\ StartsWithWordChar(line_text))]

\* the thresholds of _should_merge_lines
FontSizeTolerance == 1
MinMergeLength == 15
SentenceTerminators == {".", ":", "!", "?", ";"}
ContinuationStarts ==
    { <<"a", "n", "d", SP>>, <<"o", "r", SP>>, <<"t", "h", "e", SP>>, <<"t", "o", SP>>,
      <<"o", "f", SP>>, <<"i", "n", SP>>, <<"f", "o", "r", SP>>, <<"w", "i", "t", "h", SP>> }

\* a merge decision that does not look at the page (a variant for comparison)
ShouldMergeLinesAnyPage(prev, curr) ==
    LET prev_text == Strip(prev.text)
        curr_text == Strip(curr.text)
    IN  /\ prev.is_bold = curr.is_bold
        /\ Abs(prev.font_size - curr.font_size) <= FontSizeTolerance
        /\ Len(prev_text) >= MinMergeLength
        /\ ~\E c \in SentenceTerminators : EndsWith(prev_text, <<c>>)
        /\ \/ (curr_text # <<>> /\ curr_text[1] \in LowerChars)
           \/ \E start \in ContinuationStarts : StartsWith(curr_text, start)

\* a merge decision with a font tolerance below one point (a variant for
\* comparison)
ShouldMergeLinesStrictFont(prev, curr) ==
    LET prev_text == Strip(prev.text)
        curr_text == Strip(curr.text)
    IN  /\ prev.page = curr.page
        /\ prev.is_bold = curr.is_bold
        /\ Abs(prev.font_size - curr.font_size) < FontSizeTolerance
        /\ Len(prev_text) >= MinMergeLength
        /\ ~\E c \in SentenceTerminators : EndsWith(prev_text, <<c>>)
        /\ \/ (curr_text # <<>> /\ curr_text[1] \in LowerChars)
           \/ \E start \in ContinuationStarts : StartsWith(curr_text, start)

\* _should_merge_lines(prev, curr)
ShouldMergeLines(prev, curr) ==
    LET prev_text == Strip(prev.text)
        curr_text == Strip(curr.text)
    IN  IF prev.page # curr.page THEN FALSE
        ELSE IF prev.is_bold # curr.is_bold THEN FALSE
        ELSE IF Abs(prev.font_size - curr.font_size) > FontSizeTolerance THEN FALSE
        ELSE IF Len(prev_text) < MinMergeLength THEN FALSE
        ELSE IF \E c \in SentenceTerminators : EndsWith(prev_text, <<c>>) THEN FALSE
        ELSE \/ (curr_text # <<>> /\ curr_text[1] \in LowerChars)
             \/ \E start \in ContinuationStarts : StartsWith(curr_text, start)

\* the thresholds of _reevaluate_header_status
HeaderLengthMin == 15
HeaderLengthMax == 80
ShortPhraseLength == 40
ListCommaCount == 2
HeaderScore == 2

\* re.match(r'^-\s+', text)
MatchesBullet(t) == Len(t) >= 2 /\ t[1] = "-" /\ t[2] \in Whitespace

\* re.match(r'^\d+\)\s+', text)
MatchesParenNumber(t) ==
    LET n == DigitRun(t)
    IN  n >= 1 /\ Len(t) >= n + 2 /\ t[n + 1] = ")" /\ t[n + 2] \in Whitespace

\* one [A-Z][a-z]+ word at the start of t: its length, 0 if there is none
CapitalizedWord(t) ==
    IF t # <<>> /\ t[1] \in UpperChars /\ LowerRun(Tail(t)) >= 1
    THEN 1 + LowerRun(Tail(t)) ELSE 0

\* re.match(r'^[A-Z][a-z]+\s+[A-Z][a-z]+,\s+', text)
MatchesNameList(t) ==
    LET w1    == CapitalizedWord(t)
        rest1 == Drop(t, w1)
        ws    == SpaceRun(rest1)
        rest2 == Drop(rest1, ws)
        w2    == CapitalizedWord(rest2)
        rest3 == Drop(rest2, w2)
    IN  /\ w1 >= 1 /\ ws >= 1 /\ w2 >= 1
        /\ Len(rest3) >= 2 /\ rest3[1] = "," /\ rest3[2] \in Whitespace

\* no text taken for a list item (a variant for comparison)
NoListItem(t) == FALSE

\* is_list_item of _reevaluate_header_status
IsListItem(t) ==
    \/ Count(t, ",") >= ListCommaCount
    \/ MatchesBullet(t)
    \/ MatchesParenNumber(t)
    \/ MatchesNameList(t)

\* a score that leaves the font size out (a variant for comparison)
ScoreWithoutLarger(block) ==
    LET t == Strip(block.text)
    IN  (IF HeaderLengthMin <= Len(t) /\ Len(t) <= HeaderLengthMax THEN 1 ELSE 0)
        + (IF EndsWith(t, <<":">>) \/ (Len(t) < ShortPhraseLength /\ Count(t, ",") = 0)
           THEN 1 ELSE 0)
        + (IF ~IsListItem(t) THEN 1 ELSE 0)

\* the score _reevaluate_header_status gives a block that is bold or all caps
Score(block) ==
    LET t == Strip(block.text)
    IN  (IF block.is_larger THEN 1 ELSE 0)
        + (IF HeaderLengthMin <= Len(t) /\ Len(t) <= HeaderLengthMax THEN 1 ELSE 0)
        + (IF EndsWith(t, <<":">>) \/ (Len(t) < ShortPhraseLength /\ Count(t, ",") = 0)
           THEN 1 ELSE 0)
        + (IF ~IsListItem(t) THEN 1 ELSE 0)

\* a re-evaluation by score alone (a variant for comparison)
ReevaluateUngated(block) ==
    [block EXCEPT !.is_likely_header = Score(block) >= HeaderScore]

\* _reevaluate_header_status(block)
ReevaluateHeaderStatus(block) ==
    IF ~(block.is_bold \/ block.is_all_caps)
    THEN [block EXCEPT !.is_likely_header = FALSE]
    ELSE [block EXCEPT !.is_likely_header = Score(block) >= HeaderScore]

\* a merge that takes the font size of the merged line (a variant for
\* comparison)
MergeIntoTakingFont(buffer, block) ==
    [buffer EXCEPT !.text = @ \o <<SP>> \o block.text, !.font_size = block.font_size]

\* a merge that drops the text of the merged line (a variant for comparison)
MergeIntoDropping(buffer, block) == buffer

\* the buffer of _reconstruct_wrapped_lines after a merge
MergeInto(buffer, block) == [buffer EXCEPT !.text = @ \o <<SP>> \o block.text]

\* a loop that appends the last buffer as it is, without re-evaluating it
\* (a variant for comparison)
RECURSIVE ReconstructLoopKeepingLast(_, _, _)
ReconstructLoopKeepingLast(blocks, buffer, reconstructed) ==
    IF blocks = <<>>
    THEN Append(reconstructed, buffer)
    ELSE IF ShouldMergeLines(buffer, Head(blocks))
    THEN ReconstructLoopKeepingLast(Tail(blocks), MergeInto(buffer, Head(blocks)),
                                    reconstructed)
    ELSE ReconstructLoopKeepingLast(Tail(blocks), Head(blocks),
                                    Append(reconstructed, ReevaluateHeaderStatus(buffer)))

\* the loop of _reconstruct_wrapped_lines: buffer is the line being built
RECURSIVE ReconstructLoop(_, _, _)
ReconstructLoop(blocks, buffer, reconstructed) ==
    IF blocks = <<>>
    THEN Append(reconstructed, ReevaluateHeaderStatus(buffer))
    ELSE IF ShouldMergeLines(buffer, Head(blocks))
    THEN ReconstructLoop(Tail(blocks), MergeInto(buffer, Head(blocks)), reconstructed)
    ELSE ReconstructLoop(Tail(blocks), Head(blocks),
                         Append(reconstructed, ReevaluateHeaderStatus(buffer)))

\* _reconstruct_wrapped_lines(formatted_blocks)
ReconstructWrappedLines(formatted_blocks) ==
    IF formatted_blocks = <<>> THEN <<>>
    ELSE ReconstructLoop(Tail(formatted_blocks), Head(formatted_blocks), <<>>)

(***************************************************************************)
(* The inputs of the model.                                                *)
(***************************************************************************)
\* the blocks an input text is made of: a blank line, a body line, a
\* section heading as the formatting extractor marks it, a numbered section
\* and a numbered subsection with a body line each, and a numbered
\* sub-subsection whose body is a numbered line that is no heading
BlockVocabulary ==
    { <<>>,
      <<"a", "b">>,
      <<"#", "#", SP, "A">>,
      <<"1", ".", SP, "A", NL, "a", "b">>,
      <<"1", ".", "1", SP, "B", NL, "a", "b">>,
      <<"1", ".", "1", ".", "1", SP, "C", NL, "1", ".", SP, "A", "a">> }

\* the input texts: up to MaxBlocks blocks, joined by newlines
Texts ==
    { Join(bs, <<NL>>) :
        bs \in UNION { [1..k -> BlockVocabulary] : k \in 0..MaxBlocks } }

\* the metadata a caller passes: none, or the document's source
Metadatas == { NoneMetadata, [none |-> FALSE, value |-> [source |-> "doc.pdf"]] }

\* the shared settings (config/settings.py), scaled to the model's sizes
SettingsChoices ==
    { [max_chunk_size |-> MaxSize, chunk_overlap |-> o,
       chunker_type |-> "langchain_simple"] : o \in 0..1 }

\* the optional chunker_type argument of create_chunker
ChunkerTypeArguments ==
    { [none |-> TRUE, value |-> ""], Some("langchain"), Some("langchain_simple"),
      Some("semantic") }

\* the optional size argument of the constructor: none, zero, one and two
\* characters, and the largest size
SizeArguments == {None, Some(0), Some(1), Some(2), Some(MaxSize)}
\* the optional overlap argument of the constructor: none, no overlap, one
\* character, and the largest size (equal to or above the chunker's size)
OverlapArguments == {None, Some(0), Some(1), Some(MaxSize)}

\* a text of n characters (more where start and end are longer than that):
\* start, then lowercase letters, then end
Filled(start, end, n) ==
    start \o [i \in 1..(n - Len(start) - Len(end)) |-> "x"] \o end

\* the texts of the records handed to the header re-evaluation: lengths on
\* both sides of each threshold; a lowercase, a capital, a padded, a bullet,
\* a dash, a numbered and two name-like starts; ends with and without a
\* colon and with up to three commas
HeaderTextLengths == {14, 15, 39, 40, 80, 81}
HeaderTextStarts ==
    { <<>>, <<"A">>, <<SP>>, <<"-", SP>>, <<"-">>, <<"1", ")", SP>>,
      <<"A", "b", SP, "C", "d", ",", SP>>, <<"A", "b", SP, "C", "d", SP>> }
HeaderTextEnds ==
    { <<>>, <<":">>, <<",", "x">>, <<",", "x", ",", "x">>,
      <<",", "x", ",", "x", ",", "x">>, <<",", "x", ":">> }
HeaderTexts ==
    { Filled(start, end, n) :
        start \in HeaderTextStarts, end \in HeaderTextEnds, n \in HeaderTextLengths }
\* the records handed to the header re-evaluation, with every combination
\* of the flags
HeaderBlocks ==
    { [text |-> t, page |-> 1, font_size |-> 10, is_bold |-> b, is_all_caps |-> c,
       is_larger |-> l, is_likely_header |-> h] :
        t \in HeaderTexts, b \in BOOLEAN, c \in BOOLEAN, l \in BOOLEAN, h \in BOOLEAN }

\* the previous lines of a merge decision: 14 to 16 characters, padded or
\* not, ending with each terminator, with a comma or with a letter
PrevLines ==
    { [text |-> Filled(<<>>, end, n), page |-> 1, font_size |-> 10, is_bold |-> b,
       is_all_caps |-> FALSE, is_larger |-> FALSE, is_likely_header |-> FALSE] :
        end \in { <<>>, <<".">>, <<":">>, <<"!">>, <<"?">>, <<";">>, <<",">>, <<".", SP>> },
        n \in {14, 15, 16}, b \in BOOLEAN }
\* the current lines of a merge decision: empty, lowercase, capital, digit,
\* padded, a continuation word in lowercase and capitalized
CurrLines ==
    { [text |-> t, page |-> p, font_size |-> f, is_bold |-> b,
       is_all_caps |-> FALSE, is_larger |-> f > 10, is_likely_header |-> FALSE] :
        t \in { <<>>, <<"x">>, <<"A", "x">>, <<"1", "x">>, <<SP, "x">>,
                <<"a", "n", "d", SP, "x">>, <<"A", "n", "d", SP, "x">>,
                <<"w", "i", "t", "h", SP, "A">> },
        p \in {1, 2}, f \in {9, 10, 11, 12}, b \in BOOLEAN }

\* the lines handed to the linearizer on its own: numbers of one, two and
\* three parts, with and without the dot after the number, with one and two
\* spaces, without a space, with more digits; titles that look like a
\* header and titles that do not; a marked heading; plain lines
LinearizerLines ==
    { <<>>,
      <<"a", "b">>,
      <<"#", "#", SP, "A">>,
      <<"#", "#", SP, "1", ".", SP, "A">>,
      <<"1", ".", SP, "A">>,
      <<"1", "2", ".", SP, SP, "A", "b">>,
      <<"1", ".", "A">>,
      <<"1", SP, "A">>,
      <<"1", ".", SP, "a">>,
      <<"1", ".", SP, "A", "a">>,
      <<"1", ".", SP, SP>>,
      <<"1", ".", "1", SP, "B">>,
      <<"1", ".", "1", ".", SP, "B">>,
      <<"1", ".", "1", SP, "B", ",">>,
      <<"1", ".", "1", ".", "1", SP, "C">>,
      <<"1", ".", "1", ".", "1", ".", SP, "C", SP, "o", "f">>,
      <<"1", ".", "1", ".", "1", ".", "1", SP, "C">>,
      <<SP, "1", ".", SP, "A">> }
\* the texts handed to the linearizer on its own: one or two lines
LinearizerTexts ==
    LinearizerLines \cup { a \o <<NL>> \o b : a \in LinearizerLines, b \in LinearizerLines }

\* the normal (most common) font size of the pages of the model
NormalFontSize == 10
\* the lines of a page as PyMuPDF gives them: text, page, average font size,
\* bold flag
RawLine(t, p, f, b) == [text |-> t, page |-> p, font_size |-> f, is_bold |-> b]
LongLine == Filled(<<>>, <<>>, 15)
EndedLine == Filled(<<>>, <<".">>, 15)
CapsLine == <<"A", "B", "C", "D", SP, "A", "B", "C", "D", SP, "A", "B", "C", "D", SP, "A", "B">>
RawLines ==
    { RawLine(LongLine, 1, 10, FALSE), RawLine(LongLine, 1, 11, FALSE),
      RawLine(LongLine, 1, 12, FALSE), RawLine(LongLine, 1, 10, TRUE),
      RawLine(LongLine, 2, 10, FALSE), RawLine(<<"x">>, 1, 10, FALSE),
      RawLine(EndedLine, 1, 10, FALSE), RawLine(CapsLine, 1, 10, FALSE),
      RawLine(CapsLine, 1, 12, TRUE), RawLine(<<"A", "b", ":">>, 1, 12, TRUE),
      RawLine(<<SP, SP>>, 1, 10, FALSE) }
\* the pages of the model: up to MaxLines lines
RawPages == UNION { [1..k -> RawLines] : k \in 0..MaxLines }

\* the records _extract_formatted_lines makes of the lines: blank lines are
\* skipped
RECURSIVE ExtractFormattedLines(_)
ExtractFormattedLines(raw) ==
    IF raw = <<>> THEN <<>>
    ELSE LET line == Head(raw)
         IN  IF Strip(line.text) = <<>> THEN ExtractFormattedLines(Tail(raw))
             ELSE <<FormattedLine(line.text, line.page, line.font_size, line.is_bold,
                                  NormalFontSize)>>
                  \o ExtractFormattedLines(Tail(raw))

(***************************************************************************)
(* The state machine: a chunker is constructed, then chunk() is called.    *)
(***************************************************************************)
VARIABLES
    settings,   \* config.settings.settings
    pc,         \* "new", "ready" (constructed), "done" (chunk() has ended)
    chunker,    \* the LangChainChunker's fields
    text,       \* the text chunk() was called with
    metadata,   \* the metadata chunk() was called with
    md_failed,  \* the markdown splitter raised in this call
    outcome,    \* what the call did: raised, chunks, splitters
    caller_metadata,    \* the caller's metadata mapping after the call
    lines_pc,   \* "idle", or what the extractor did: "reevaluated",
                \* "compared", "reconstructed", "again"
    block,      \* the record handed to _reevaluate_header_status
    reevaluated,        \* the record it returned
    prev,       \* the lines handed to _should_merge_lines
    curr,
    should_merge,       \* what it returned
    formatted_blocks,   \* the records handed to _reconstruct_wrapped_lines
    reconstructed,      \* the records it returned
    reconstructed_again,    \* the records it returned when handed its own result
    linearized, \* a text handed to _convert_to_markdown, and what it returned
    pipeline,   \* the last process_pdf call: its input, its steps, its report
    store       \* the vector store: document records and chunk rows

chunker_vars == <<settings, pc, chunker, text, metadata, md_failed, outcome,
                  caller_metadata>>
lines_vars == <<lines_pc, block, reevaluated, prev, curr, should_merge,
                formatted_blocks, reconstructed, reconstructed_again, linearized>>
pipeline_vars == <<pipeline, store>>
vars == <<chunker_vars, lines_vars, pipeline_vars>>

NoChunker == [max_chunk_size |-> 0, chunk_overlap |-> 0, use_section_awareness |-> FALSE]
NoOutcome == [raised |-> FALSE, chunks |-> <<>>, splitters |-> <<>>]
NoBlock == [text |-> <<>>, page |-> 1, font_size |-> 10, is_bold |-> FALSE,
            is_all_caps |-> FALSE, is_larger |-> FALSE, is_likely_header |-> FALSE]

\* no process_pdf call yet, an empty store
NoPipeline ==
    [entry |-> "none", file |-> [kind |-> "none", page_count |-> 0, lines |-> <<>>],
     verbose |-> FALSE, extracted |-> FALSE,
     extraction |-> [success |-> FALSE, extracted_text |-> <<>>, metadata |-> EmptyMap],
     cleaned |-> FALSE, chunked |-> FALSE, embedded |-> FALSE, chunk_count |-> 0,
     report |-> "none"]
EmptyStore == [documents |-> <<>>, chunks |-> <<>>]
PipelineIdle == pipeline = NoPipeline /\ store = EmptyStore

\* the extractor before any of its operations
LinesIdle ==
    /\ lines_pc = "idle"
    /\ block = NoBlock /\ reevaluated = NoBlock
    /\ prev = NoBlock /\ curr = NoBlock /\ should_merge = FALSE
    /\ formatted_blocks = <<>> /\ reconstructed = <<>> /\ reconstructed_again = <<>>
    /\ linearized = [text |-> <<>>, markdown |-> <<>>]

Init ==
    /\ settings \in SettingsChoices
    /\ pc = "new"
    /\ chunker = NoChunker
    /\ text = <<>>
    /\ metadata = NoneMetadata
    /\ md_failed = FALSE
    /\ outcome = NoOutcome
    /\ caller_metadata = NoneMetadata
    /\ LinesIdle
    /\ PipelineIdle

\* LangChainChunker(max_chunk_size, chunk_overlap, use_section_awareness)
Construct(max_chunk_size, chunk_overlap, use_section_awareness) ==
    /\ pc = "new"
    /\ chunker' = NewChunker(max_chunk_size, chunk_overlap, use_section_awareness, settings)
    /\ pc' = "ready"
    /\ UNCHANGED <<settings, text, metadata, md_failed, outcome, caller_metadata,
                   lines_vars, pipeline_vars>>

\* create_chunker(chunker_type, max_chunk_size, chunk_overlap): a call that
\* raises ValueError leaves no chunker behind
CreateChunkerCall(chunker_type, max_chunk_size, chunk_overlap) ==
    /\ pc = "new"
    /\ LET made == CreateChunker(chunker_type, max_chunk_size, chunk_overlap, settings)
       IN  IF made.raised
           THEN UNCHANGED <<chunker, pc>>
           ELSE chunker' = made.chunker /\ pc' = "ready"
    /\ UNCHANGED <<settings, text, metadata, md_failed, outcome, caller_metadata,
                   lines_vars, pipeline_vars>>

\* chunker.chunk(t, m), the markdown splitter working
Chunk(t, m) ==
    /\ pc = "ready"
    /\ text' = t
    /\ metadata' = m
    /\ md_failed' = FALSE
    /\ outcome' = ChunkCall(chunker, t, m, FALSE)
    /\ caller_metadata' = CallerMetadata(chunker, t, m, FALSE)
    /\ pc' = "done"
    /\ UNCHANGED <<settings, chunker, lines_vars, pipeline_vars>>

\* chunker.chunk(t, m), the markdown splitter raising: it is reached only
\* for a text that is not blank, in section-aware mode
ChunkSplitterFails(t, m) ==
    /\ pc = "ready"
    /\ ~IsBlank(t)
    /\ chunker.use_section_awareness
    /\ text' = t
    /\ metadata' = m
    /\ md_failed' = TRUE
    /\ outcome' = ChunkCall(chunker, t, m, TRUE)
    /\ caller_metadata' = CallerMetadata(chunker, t, m, TRUE)
    /\ pc' = "done"
    /\ UNCHANGED <<settings, chunker, lines_vars, pipeline_vars>>

Next ==
    \/ \E a \in SizeArguments, b \in OverlapArguments, s \in BOOLEAN : Construct(a, b, s)
    \/ \E ty \in ChunkerTypeArguments, a \in SizeArguments, b \in OverlapArguments :
          CreateChunkerCall(ty, a, b)
    \/ \E t \in Texts, m \in Metadatas : Chunk(t, m)
    \/ \E t \in Texts, m \in Metadatas : ChunkSplitterFails(t, m)

Spec == Init /\ [][Next]_vars

(***************************************************************************)
(* chunk() with a caller's metadata that has keys of the chunker's own:    *)
(* a specification of its own, with the chunkers that split the texts.     *)
(***************************************************************************)
\* metadata mappings with a key the chunker writes, or a heading-path key
CallerMetadatas ==
    { NoneMetadata,
      [none |-> FALSE,
       value |-> [source |-> "doc.pdf", chunk_index |-> 7, is_split_chunk |-> TRUE]],
      [none |-> FALSE, value |-> [source |-> "doc.pdf", section |-> <<"S">>]] }

MetadataNext ==
    \/ \E a \in {Some(2), Some(MaxSize)}, b \in {Some(0), Some(1)}, s \in BOOLEAN :
          Construct(a, b, s)
    \/ \E t \in Texts, m \in CallerMetadatas : Chunk(t, m)
    \/ \E t \in Texts, m \in CallerMetadatas : ChunkSplitterFails(t, m)

MetadataSpec == Init /\ [][MetadataNext]_vars

(***************************************************************************)
(* The operations of the formatting extractor, under a specification of    *)
(* their own: the chunker stays as constructed.                            *)
(***************************************************************************)
\* _reevaluate_header_status(b)
Reevaluate(b) ==
    /\ lines_pc = "idle"
    /\ block' = b
    /\ reevaluated' = ReevaluateHeaderStatus(b)
    /\ lines_pc' = "reevaluated"
    /\ UNCHANGED <<chunker_vars, pipeline_vars, prev, curr, should_merge, formatted_blocks,
                   reconstructed, reconstructed_again, linearized>>

\* _should_merge_lines(p, c)
ShouldMerge(p, c) ==
    /\ lines_pc = "idle"
    /\ prev' = p
    /\ curr' = c
    /\ should_merge' = ShouldMergeLines(p, c)
    /\ lines_pc' = "compared"
    /\ UNCHANGED <<chunker_vars, pipeline_vars, block, reevaluated, formatted_blocks,
                   reconstructed, reconstructed_again, linearized>>

\* the lines of a document are extracted and reconstructed (extract)
Reconstruct(raw) ==
    /\ lines_pc = "idle"
    /\ formatted_blocks' = ExtractFormattedLines(raw)
    /\ reconstructed' = ReconstructWrappedLines(formatted_blocks')
    /\ lines_pc' = "reconstructed"
    /\ UNCHANGED <<chunker_vars, pipeline_vars, block, reevaluated, prev, curr, should_merge,
                   reconstructed_again, linearized>>

\* _reconstruct_wrapped_lines on its own result
ReconstructAgain ==
    /\ lines_pc = "reconstructed"
    /\ reconstructed_again' = ReconstructWrappedLines(reconstructed)
    /\ lines_pc' = "again"
    /\ UNCHANGED <<chunker_vars, pipeline_vars, block, reevaluated, prev, curr, should_merge,
                   formatted_blocks, reconstructed, linearized>>

\* _convert_to_markdown(t), on its own
Linearize(t) ==
    /\ lines_pc = "idle"
    /\ linearized' = [text |-> t, markdown |-> ConvertToMarkdown(t)]
    /\ lines_pc' = "linearized"
    /\ UNCHANGED <<chunker_vars, pipeline_vars, block, reevaluated, prev, curr, should_merge,
                   formatted_blocks, reconstructed, reconstructed_again>>

LinesNext ==
    \/ \E b \in HeaderBlocks : Reevaluate(b)
    \/ \E p \in PrevLines, c \in CurrLines : ShouldMerge(p, c)
    \/ \E raw \in RawPages : Reconstruct(raw)
    \/ ReconstructAgain
    \/ \E t \in LinearizerTexts : Linearize(t)

LinesSpec == Init /\ [][LinesNext]_vars

(***************************************************************************)
(* The document pipeline: process_pdf of the API service                   *)
(* (src/src/api/services/rag_service.py) and of the upload script          *)
(* (src/scripts/upload_pdf.py).  A file is missing, not a PDF, a PDF that  *)
(* cannot be opened, or a PDF with its lines.  An embedding is kept as the *)
(* text it was made of; a database error is not modelled.                  *)
(***************************************************************************)
\* the length of the run of characters of set S in t from position i on
RECURSIVE RunFrom(_, _, _)
RunFrom(t, i, S) ==
    IF i <= Len(t) /\ t[i] \in S THEN 1 + RunFrom(t, i + 1, S) ELSE 0

\* PATTERN_PAGE_MARKER, -+\s*Page\s+\d+\s*-+\s*\n ignoring case, matched at
\* position i of t: the length of the match, 0 if there is none
PageMarkerAt(t, i) ==
    LET d1   == RunFrom(t, i, {"-"})
        w1   == RunFrom(t, i + d1, Whitespace)
        p    == i + d1 + w1
        word == /\ Len(t) >= p + 3
                /\ t[p] \in {"P", "p"} /\ t[p + 1] \in {"A", "a"}
                /\ t[p + 2] \in {"G", "g"} /\ t[p + 3] \in {"E", "e"}
        w2   == RunFrom(t, p + 4, Whitespace)
        n    == RunFrom(t, p + 4 + w2, DigitChars)
        w3   == RunFrom(t, p + 4 + w2 + n, Whitespace)
        q    == p + 4 + w2 + n + w3
        d2   == RunFrom(t, q, {"-"})
        w4   == RunFrom(t, q + d2, Whitespace)
        ends == { k \in (q + d2)..(q + d2 + w4 - 1) : t[k] = NL }
    IN  IF d1 >= 1 /\ word /\ w2 >= 1 /\ n >= 1 /\ d2 >= 1 /\ ends # {}
        THEN (CHOOSE k \in ends : \A j \in ends : j <= k) - i + 1
        ELSE 0

\* the characters of t at the positions of set keep, in order
Picked(t, keep) ==
    [k \in 1..Cardinality(keep) |->
        t[CHOOSE i \in keep : Cardinality({j \in keep : j <= i}) = k]]

\* TextCleaner.remove_page_markers: the matches are taken from the left,
\* each after the end of the one before
RECURSIVE MarkerPositions(_, _)
MarkerPositions(t, from) ==
    LET starts == { i \in from..Len(t) : PageMarkerAt(t, i) > 0 }
    IN  IF starts = {} THEN {}
        ELSE LET i == CHOOSE m \in starts : \A o \in starts : m <= o
                 n == PageMarkerAt(t, i)
             IN  i..(i + n - 1) \cup MarkerPositions(t, i + n)
RemovePageMarkers(t) == Picked(t, (1..Len(t)) \ MarkerPositions(t, 1))

\* re.sub of every run of character c longer than keep by keep of them:
\* a character goes when it is c and the keep characters before it are c
LimitRuns(t, c, keep) ==
    Picked(t, { i \in 1..Len(t) :
                  ~(t[i] = c /\ i > keep /\ \A k \in 1..keep : t[i - k] = c) })

\* TextCleaner.normalize_whitespace: runs of spaces become one space, runs
\* of three and more newlines become two, each line is stripped
NormalizeWhitespace(t) ==
    LET spaces   == LimitRuns(t, SP, 1)
        newlines == LimitRuns(spaces, NL, 2)
        lines    == SplitOn(newlines, <<NL>>)
    IN  Join([i \in 1..Len(lines) |-> Strip(lines[i])], <<NL>>)

\* the percentage of content that may be lost in cleaning
MaxContentLossPct == 10
\* TextCleaner.validate_cleaned_text: the warnings
ValidateCleanedText(cleaned_text, original_text) ==
    LET orig_len  == Len(SelectSeq(original_text, LAMBDA c : c \notin Whitespace))
        clean_len == Len(SelectSeq(cleaned_text, LAMBDA c : c \notin Whitespace))
    IN  IF orig_len > 0 /\ (orig_len - clean_len) * 100 > MaxContentLossPct * orig_len
        THEN <<"content loss">> ELSE <<>>

\* TextCleaner.clean(text)
Clean(t) ==
    LET cleaned == NormalizeWhitespace(RemovePageMarkers(t))
    IN  [text |-> cleaned, warnings |-> ValidateCleanedText(cleaned, t)]

\* the text extract() builds of the reconstructed records
TextParts(blocks) ==
    Join([i \in 1..Len(blocks) |->
            IF blocks[i].is_likely_header
            THEN <<NL, "#", "#", SP>> \o blocks[i].text \o <<NL>>
            ELSE blocks[i].text \o <<NL>>], <<>>)

\* FormattingExtractor.extract(file): an exception of the validation or of
\* the PDF library is caught and leaves the result as created, success false
Extract(file) ==
    IF file.kind # "pdf"
    THEN [success |-> FALSE, extracted_text |-> <<>>, metadata |-> EmptyMap]
    ELSE LET blocks == ReconstructWrappedLines(ExtractFormattedLines(file.lines))
         IN  [success        |-> TRUE,
              extracted_text |-> TextParts(blocks),
              metadata       |-> [page_count |-> file.page_count]]

\* extraction_result.metadata.get('page_count', 0)
PageCount(extraction) ==
    IF "page_count" \in DOMAIN extraction.metadata
    THEN extraction.metadata["page_count"] ELSE 0

\* SentenceTransformerEmbedder.embed_batch(texts): one embedding per text
EmbedBatch(texts) == texts

\* store.insert_document, then store.insert_chunks with the chunks and their
\* embeddings
Inserted(st, page_count, chunks, embeddings) ==
    LET n == Min(Len(chunks), Len(embeddings))
    IN  [documents |-> Append(st.documents, [page_count |-> page_count, chunk_count |-> n]),
         chunks    |-> st.chunks \o [i \in 1..n |->
                           [document |-> Len(st.documents) + 1, chunk_index |-> i - 1,
                            text |-> chunks[i].text, embedding |-> embeddings[i]]]]

\* what a process_pdf call leaves behind when it ends in an exception after
\* the steps named
Raised(entry, file, verbose, extracted, extraction, cleaned, chunked, embedded) ==
    [entry |-> entry, file |-> file, verbose |-> verbose, extracted |-> extracted,
     extraction |-> extraction, cleaned |-> cleaned, chunked |-> chunked, embedded |-> embedded,
     chunk_count |-> 0, report |-> "raised"]

\* what a process_pdf call leaves behind when it returns
Returned(entry, file, verbose, extraction, chunks, embeddings) ==
    [entry |-> entry, file |-> file, verbose |-> verbose, extracted |-> TRUE,
     extraction |-> extraction, cleaned |-> TRUE, chunked |-> TRUE, embedded |-> TRUE,
     chunk_count |-> Min(Len(chunks), Len(embeddings)), report |-> "returned"]

\* RAGService.process_pdf from the embedding on: the document and its
\* chunks are stored and the result is returned
RagServiceStore(file, extraction, call, embeddings, st) ==
    IF call.raised
    THEN [pipeline |-> Raised("rag_service", file, FALSE, TRUE, extraction,
                              TRUE, TRUE, FALSE),
          store    |-> st]
    ELSE [pipeline |-> Returned("rag_service", file, FALSE, extraction,
                                call.chunks, embeddings),
          store    |-> Inserted(st, PageCount(extraction), call.chunks, embeddings)]
\* RAGService.process_pdf from the chunking on
RagServiceEmbed(file, extraction, call, st) ==
    RagServiceStore(file, extraction, call, EmbedBatch(TextsOfChunks(call.chunks)), st)
RagServiceChunk(file, extraction, cleaned, made, st) ==
    IF made.raised THEN {}
    ELSE { RagServiceEmbed(file, extraction,
               ChunkCall(made.chunker, cleaned.text, NoneMetadata, FALSE), st) }
\* RagService.process_pdf from the cleaning on: the result of the
\* extraction is used without a look at its success flag
RagServiceClean(file, extraction, st) ==
    RagServiceChunk(file, extraction, Clean(extraction.extracted_text),
                    CreateChunker(None, None, None, settings), st)

\* RAGService.process_pdf(file_path, original_filename)
RagServiceProcessPdf(file) ==
    /\ pipeline.entry = "none"
    /\ \E r \in RagServiceClean(file, Extract(file), store) :
          /\ pipeline' = r.pipeline
          /\ store' = r.store
    /\ UNCHANGED <<chunker_vars, lines_vars>>

\* process_pdf of scripts/upload_pdf.py from the embedding on: the verbose
\* report reads the first embedding
UploadStore(file, verbose, extraction, call, embeddings, st) ==
    IF call.raised
    THEN [pipeline |-> Raised("upload_pdf", file, verbose, TRUE, extraction,
                              TRUE, TRUE, FALSE),
          store    |-> st]
    ELSE IF verbose /\ embeddings = <<>>
    THEN [pipeline |-> Raised("upload_pdf", file, verbose, TRUE, extraction,
                              TRUE, TRUE, TRUE),
          store    |-> st]
    ELSE [pipeline |-> Returned("upload_pdf", file, verbose, extraction,
                                call.chunks, embeddings),
          store    |-> Inserted(st, PageCount(extraction), call.chunks, embeddings)]
\* process_pdf of scripts/upload_pdf.py from the chunking on
UploadEmbed(file, verbose, extraction, call, st) ==
    UploadStore(file, verbose, extraction, call,
                EmbedBatch(TextsOfChunks(call.chunks)), st)
UploadChunk(file, verbose, extraction, cleaned, self, st) ==
    UploadEmbed(file, verbose, extraction,
                ChunkCall(self, cleaned.text, NoneMetadata, FALSE), st)
\* process_pdf of scripts/upload_pdf.py from the look at the extraction on
UploadClean(file, verbose, extraction, st) ==
    IF ~extraction.success
    THEN [pipeline |-> Raised("upload_pdf", file, verbose, TRUE, extraction,
                              FALSE, FALSE, FALSE),
          store    |-> st]
    ELSE UploadChunk(file, verbose, extraction, Clean(extraction.extracted_text),
                     NewChunker(Some(settings.max_chunk_size),
                                Some(settings.chunk_overlap), TRUE, settings), st)
\* process_pdf of scripts/upload_pdf.py: the checks of the path, then the
\* extraction
UploadRun(file, verbose, st) ==
    IF file.kind \in {"missing", "not_pdf"}
    THEN [pipeline |-> Raised("upload_pdf", file, verbose, FALSE, NoPipeline.extraction,
                              FALSE, FALSE, FALSE),
          store    |-> st]
    ELSE UploadClean(file, verbose, Extract(file), st)

\* process_pdf(file_path, verbose) of scripts/upload_pdf.py: it raises for a
\* missing file, for a file that is no PDF and for a failed extraction
UploadProcessPdf(file, verbose) ==
    /\ pipeline.entry = "none"
    /\ \E r \in { UploadRun(file, verbose, store) } :
          /\ pipeline' = r.pipeline
          /\ store' = r.store
    /\ UNCHANGED <<chunker_vars, lines_vars>>

\* the lines of the PDFs handed to process_pdf: a body line, a bold and
\* larger label, a blank line, a bold all-caps line of page 2, a numbered
\* section line, a page marker and a line with a run of spaces
PdfLines ==
    { RawLine(<<"x">>, 1, 10, FALSE), RawLine(<<"A", "b", ":">>, 1, 12, TRUE),
      RawLine(<<SP, SP>>, 1, 10, FALSE), RawLine(<<"A", "B", "C", "D">>, 2, 10, TRUE),
      RawLine(<<"1", ".", SP, "A">>, 1, 10, FALSE),
      RawLine(<<"-", "-", "-", SP, "P", "a", "g", "e", SP, "1", SP, "-", "-", "-">>,
              1, 10, FALSE),
      RawLine(<<"a", SP, SP, "b">>, 1, 10, FALSE) }
\* the files handed to process_pdf: no file, a file that is no PDF, a PDF
\* that cannot be opened, and the PDFs of one page or two with up to two
\* lines
PdfPages == UNION { [1..k -> PdfLines] : k \in 0..2 }
PagesOf(lines) == IF \E i \in 1..Len(lines) : lines[i].page = 2 THEN 2 ELSE 1
Files ==
    { [kind |-> k, page_count |-> 0, lines |-> <<>>] : k \in {"missing", "not_pdf", "corrupt"} }
    \cup { [kind |-> "pdf", page_count |-> PagesOf(lines), lines |-> lines] :
             lines \in PdfPages }

PipelineNext ==
    \/ \E file \in Files : RagServiceProcessPdf(file)
    \/ \E file \in Files, verbose \in BOOLEAN : UploadProcessPdf(file, verbose)

PipelineSpec == Init /\ [][PipelineNext]_vars

(***************************************************************************)
(* Vocabulary of the properties.                                           *)
(***************************************************************************)
Done == pc = "done"
Chunks == outcome.chunks
Has(m, k) == k \in DOMAIN m
\* the empty string, or whitespace only
WhitespaceOnly(t) == \A i \in 1..Len(t) : t[i] \in Whitespace

\* chunk() took the section-aware path: the text is not blank, section
\* awareness is on and the markdown splitter did not fail
SectionAwarePath ==
    Done /\ ~WhitespaceOnly(text) /\ chunker.use_section_awareness /\ ~md_failed
\* chunk() took the size-based path
SizeBasedPath ==
    Done /\ ~WhitespaceOnly(text) /\ (~chunker.use_section_awareness \/ md_failed)

\* the lines of the text as the heading splitter reads them
MarkdownLines(t) ==
    LET lines == SplitOn(ConvertToMarkdown(t), <<NL>>)
    IN  [i \in 1..Len(lines) |-> Strip(lines[i])]
IsHeadingLine(line) == HeaderIndex(line) # 0
\* a document of heading lines and blank lines only, with a heading
HeaderOnly(t) ==
    LET lines == MarkdownLines(t)
    IN  /\ \E i \in 1..Len(lines) : IsHeadingLine(lines[i])
        /\ \A i \in 1..Len(lines) : lines[i] = <<>> \/ IsHeadingLine(lines[i])
\* a heading line directly followed by another heading line
HasAdjacentHeadings(t) ==
    LET lines == MarkdownLines(t)
    IN  \E i \in 1..(Len(lines) - 1) :
            IsHeadingLine(lines[i]) /\ IsHeadingLine(lines[i + 1])

IsSplitChunk(c) == Has(c.metadata, "is_split_chunk") /\ c.metadata["is_split_chunk"] = TRUE
IsIntactChunk(c) == Has(c.metadata, "is_split_chunk") /\ c.metadata["is_split_chunk"] = FALSE
IsFallbackChunk(c) ==
    Has(c.metadata, "is_fallback_chunk") /\ c.metadata["is_fallback_chunk"] = TRUE

(***************************************************************************)
(* C1. Size bound: with max_chunk_size >= 1, every chunk chunk() returns   *)
(* is at most max_chunk_size characters long, whether it is an intact      *)
(* section, a piece of a force-split section or a size-based chunk.        *)
(***************************************************************************)
C1_SizeBound ==
    (Done /\ chunker.max_chunk_size >= 1) =>
        \A i \in 1..Len(Chunks) : Len(Chunks[i].text) <= chunker.max_chunk_size

\* an intact section next to a force-split piece that fills the size
C1_Witness ==
    /\ Done /\ chunker.max_chunk_size >= 2
    /\ \E i, j \in 1..Len(Chunks) :
          /\ IsIntactChunk(Chunks[i])
          /\ IsSplitChunk(Chunks[j])
          /\ Len(Chunks[j].text) = chunker.max_chunk_size

(***************************************************************************)
(* C2. No empty chunks: no chunk chunk() returns has the empty text, in    *)
(* either mode; and in section-aware mode heading lines never become       *)
(* chunk text, so a heading directly followed by another heading           *)
(* contributes no chunk.                                                   *)
(***************************************************************************)
C2_NoEmptyChunk ==
    /\ Done => \A i \in 1..Len(Chunks) : Chunks[i].text # <<>>
    /\ SectionAwarePath =>
          \A i \in 1..Len(Chunks) :
              \A k \in 1..Len(Chunks[i].text) : Chunks[i].text[k] # "#"

\* a heading directly followed by another heading, in a document that has
\* chunks
C2_Witness ==
    SectionAwarePath /\ HasAdjacentHeadings(text) /\ Len(Chunks) >= 1

(***************************************************************************)
(* C3 as stated: chunk() returns an empty list, without raising, for the   *)
(* empty string, for whitespace-only text and for a document of heading    *)
(* lines only.                                                             *)
(***************************************************************************)
C3_Original ==
    (Done /\ (WhitespaceOnly(text) \/ HeaderOnly(text))) =>
        (~outcome.raised /\ Chunks = <<>>)

(***************************************************************************)
(* C3 as amended: chunk() returns an empty list, without raising, for the  *)
(* empty string and for whitespace-only text in either mode, and for a     *)
(* document of heading lines only when it takes the section-aware path.    *)
(***************************************************************************)
C3_EmptyForDegenerateInput ==
    (Done /\ (WhitespaceOnly(text) \/ (HeaderOnly(text) /\ SectionAwarePath))) =>
        (~outcome.raised /\ Chunks = <<>>)

\* a header-only document chunked on the section-aware path
C3_Witness ==
    SectionAwarePath /\ HeaderOnly(text) /\ Chunks = <<>> /\ ~outcome.raised

\* the segments the heading splitter makes of the text
HeaderChunks(t) == MarkdownSplit(ConvertToMarkdown(t))

\* the headings of a text with the body lines after each: a fold over the
\* lines; preamble tells whether text precedes the first heading
RECURSIVE HeadingSegments(_, _)
HeadingSegments(lines, acc) ==
    IF lines = <<>> THEN acc
    ELSE LET line == Head(lines)
             h    == HeaderIndex(line)
             n    == Len(acc.segments)
         IN  IF h # 0
             THEN HeadingSegments(Tail(lines),
                      [acc EXCEPT !.segments =
                          Append(@, [key   |-> HeadersToSplitOn[h].name,
                                     title |-> Strip(Drop(line, Len(HeadersToSplitOn[h].sep))),
                                     lines |-> <<>>])])
             ELSE IF n = 0
             THEN HeadingSegments(Tail(lines),
                      [acc EXCEPT !.preamble = @ \/ line # <<>>])
             ELSE HeadingSegments(Tail(lines),
                      [acc EXCEPT !.segments[n].lines = Append(@, line)])

SegmentsOf(t) ==
    HeadingSegments(MarkdownLines(t), [segments |-> <<>>, preamble |-> FALSE])
\* the body of a heading: the text between it and the next heading
BodyOf(segment) == Strip(Join(segment.lines, <<NL>>))

\* a document of headings, each followed by a non-empty body of at most max
\* characters
HeadingsWithBodies(t, max) ==
    LET doc == SegmentsOf(t)
    IN  /\ ~doc.preamble
        /\ doc.segments # <<>>
        /\ \A i \in 1..Len(doc.segments) :
              /\ BodyOf(doc.segments[i]) # <<>>
              /\ Len(BodyOf(doc.segments[i])) <= max

(***************************************************************************)
(* C4 as stated: in section-aware mode, a document of k headings, each     *)
(* followed by a non-empty body of at most max_chunk_size characters,      *)
(* gives exactly k chunks in document order, the i-th carrying the i-th    *)
(* heading's title under the key of its level.                             *)
(***************************************************************************)
C4_Original ==
    (SectionAwarePath /\ HeadingsWithBodies(text, chunker.max_chunk_size)) =>
        LET segments == SegmentsOf(text).segments
        IN  /\ Len(Chunks) = Len(segments)
            /\ \A i \in 1..Len(segments) :
                  /\ Has(Chunks[i].metadata, segments[i].key)
                  /\ Chunks[i].metadata[segments[i].key] = segments[i].title

(***************************************************************************)
(* C5. In section-aware mode each segment of the heading splitter is       *)
(* emitted, in order, as exactly one chunk with is_split_chunk = false and *)
(* the segment's body as text if and only if the body is at most           *)
(* max_chunk_size characters long (a body of exactly max_chunk_size        *)
(* characters is not split); otherwise it is force-split and every chunk   *)
(* made of it has is_split_chunk = true.                                   *)
(***************************************************************************)
RECURSIVE EmittedBySize(_, _, _)
EmittedBySize(segments, chunks, max) ==
    IF segments = <<>> THEN chunks = <<>>
    ELSE LET body == Head(segments).page_content
         IN  IF Len(body) <= max
             THEN /\ chunks # <<>>
                  /\ IsIntactChunk(Head(chunks))
                  /\ Head(chunks).text = body
                  /\ EmittedBySize(Tail(segments), Tail(chunks), max)
             ELSE \E n \in 1..Len(chunks) :
                     /\ \A k \in 1..n : IsSplitChunk(chunks[k])
                     /\ EmittedBySize(Tail(segments), Drop(chunks, n), max)

RECURSIVE PartsNumbered(_, _, _, _)
PartsNumbered(segments, chunks, max, overlap) ==
    IF segments = <<>> THEN chunks = <<>>
    ELSE LET body == Head(segments).page_content
         IN  IF Len(body) <= max
             THEN /\ chunks # <<>>
                  /\ ~Has(Head(chunks).metadata, "chunk_part")
                  /\ PartsNumbered(Tail(segments), Tail(chunks), max, overlap)
             ELSE LET pieces == RecursiveSplit(body, max, overlap)
                      n      == Len(pieces)
                  IN  /\ n <= Len(chunks)
                      /\ \A i \in 1..n :
                            /\ chunks[i].text = pieces[i]
                            /\ Has(chunks[i].metadata, "chunk_part")
                            /\ chunks[i].metadata["chunk_part"] = Str(i) \o <<"/">> \o Str(n)
                      /\ PartsNumbered(Tail(segments), Drop(chunks, n), max, overlap)

C6_ChunkPartNumbering ==
    /\ SectionAwarePath =>
          PartsNumbered(HeaderChunks(text), Chunks, chunker.max_chunk_size,
                        IF chunker.chunk_overlap < chunker.max_chunk_size
                        THEN chunker.chunk_overlap ELSE chunker.max_chunk_size - 1)
    /\ Done => \A i \in 1..Len(Chunks) :
                  ~IsSplitChunk(Chunks[i]) => ~Has(Chunks[i].metadata, "chunk_part")

\* a segment split into three pieces, after a chunk that was not split
C6_Witness ==
    /\ SectionAwarePath
    /\ \E i \in 1..Len(Chunks) :
          /\ Has(Chunks[i].metadata, "chunk_part")
          /\ Chunks[i].metadata["chunk_part"] = <<"3", "/", "3">>
    /\ Chunks # <<>> /\ IsIntactChunk(Chunks[1])

(***************************************************************************)
(* C7. Every chunk chunk() returns has chunk_size equal to the length of   *)
(* its text.                                                               *)
(***************************************************************************)
C7_ChunkSizeIsLength ==
    Done => \A i \in 1..Len(Chunks) : Chunks[i].chunk_size = Len(Chunks[i].text)

\* size-based chunks of different lengths, one of them a single space
C7_Witness ==
    /\ SizeBasedPath
    /\ \E i, j \in 1..Len(Chunks) :
          Chunks[i].text = <<SP>> /\ Chunks[i].chunk_size = 1 /\ Chunks[j].chunk_size = 1
              /\ Chunks[j].text # <<SP>>

(***************************************************************************)
(* C8 as stated: with use_section_awareness = false, chunk() returns the   *)
(* size-based chunking of the unmodified text: the pieces of the recursive *)
(* splitter on the text as given, each with is_fallback_chunk = true and   *)
(* chunk_index equal to its 0-based position, and no heading metadata.     *)
(***************************************************************************)
C8_Original ==
    (Done /\ ~chunker.use_section_awareness /\ ~WhitespaceOnly(text)) =>
        /\ ~outcome.raised
        /\ LET pieces == RecursiveSplit(text, chunker.max_chunk_size,
                                        chunker.chunk_overlap)
           IN  /\ Len(Chunks) = Len(pieces)
               /\ \A i \in 1..Len(Chunks) :
                     /\ Chunks[i].text = pieces[i]
                     /\ IsFallbackChunk(Chunks[i])
                     /\ Has(Chunks[i].metadata, "chunk_index")
                     /\ Chunks[i].metadata["chunk_index"] = i - 1
                     /\ ~Has(Chunks[i].metadata, "section")
                     /\ ~Has(Chunks[i].metadata, "subsection")
                     /\ ~Has(Chunks[i].metadata, "subsubsection")
                     /\ ~Has(Chunks[i].metadata, "is_split_chunk")

(***************************************************************************)
(* C9 as stated: when the heading splitter fails, chunk() raises nothing   *)
(* and returns the size-based chunking of the input, every chunk with      *)
(* is_fallback_chunk = true.                                               *)
(***************************************************************************)
C9_Original ==
    (Done /\ md_failed) =>
        /\ ~outcome.raised
        /\ Chunks # <<>>
        /\ \A i \in 1..Len(Chunks) : IsFallbackChunk(Chunks[i])

(***************************************************************************)
(* C10. The overlap handed to the splitter of a force-split is             *)
(* min(chunk_overlap, max_chunk_size - 1), hence below max_chunk_size; a   *)
(* chunker with chunk_overlap = max_chunk_size chunks without raising and  *)
(* force-splits with an overlap of max_chunk_size - 1.                     *)
(***************************************************************************)
MadeBySplitLargeChunk(made) == made.by = "_split_large_chunk"

C11_Original ==
    pc \in {"ready", "done"} =>
        /\ chunker.max_chunk_size > 0
        /\ chunker.chunk_overlap < chunker.max_chunk_size

(***************************************************************************)
(* C12 as stated: a chunker built directly or through create_chunker       *)
(* takes max_chunk_size and chunk_overlap from the shared settings only    *)
(* when the argument is None; every explicitly passed value, chunk_overlap *)
(* = 0 included, is the value the chunker stores.                          *)
(***************************************************************************)
StoresArguments(max_chunk_size, chunk_overlap) ==
    /\ chunker'.max_chunk_size =
          (IF max_chunk_size.none THEN settings.max_chunk_size ELSE max_chunk_size.value)
    /\ chunker'.chunk_overlap =
          (IF chunk_overlap.none THEN settings.chunk_overlap ELSE chunk_overlap.value)

C12_Original ==
    [][ /\ \A a \in SizeArguments, b \in OverlapArguments, s \in BOOLEAN :
              Construct(a, b, s) => StoresArguments(a, b)
        /\ \A ty \in ChunkerTypeArguments, a \in SizeArguments, b \in OverlapArguments :
              (CreateChunkerCall(ty, a, b) /\ pc' = "ready") => StoresArguments(a, b)
      ]_vars

(***************************************************************************)
(* C13. Every record returned by line reconstruction, and every record     *)
(* returned by the header re-evaluation, whatever its text, font size,     *)
(* is_larger flag and previous is_likely_header, has is_bold or            *)
(* is_all_caps if it has is_likely_header.                                 *)
(***************************************************************************)
PassesGate(r) == r.is_bold \/ r.is_all_caps

C13_HeaderGate ==
    /\ lines_pc = "reevaluated" =>
          (reevaluated.is_likely_header => PassesGate(reevaluated))
    /\ lines_pc \in {"reconstructed", "again"} =>
          \A i \in 1..Len(reconstructed) :
              reconstructed[i].is_likely_header => PassesGate(reconstructed[i])
    /\ lines_pc = "again" =>
          \A i \in 1..Len(reconstructed_again) :
              reconstructed_again[i].is_likely_header => PassesGate(reconstructed_again[i])

\* a larger, short record that came in as a header, neither bold nor all
\* caps, and comes out as none
C13_Witness ==
    /\ lines_pc = "reevaluated"
    /\ block.is_likely_header /\ block.is_larger
    /\ ~block.is_bold /\ ~block.is_all_caps
    /\ Len(block.text) = 15 /\ Count(block.text, ",") = 0
    /\ ~reevaluated.is_likely_header

(***************************************************************************)
(* C14. For a record that is bold or all caps the header decision is       *)
(* score >= 2, the score counting the true signals among: S1 is_larger;    *)
(* S2 stripped length from 15 to 80; S3 the text ends with ':' or is       *)
(* shorter than 40 with no comma; S4 the text is no list item, a list item *)
(* having at least 2 commas, a leading '- ', a leading 'N) ' or a leading  *)
(* 'Name Name, '.  The re-evaluation changes nothing else of the record.   *)
(***************************************************************************)
\* t starts with digits, ')' and whitespace
LeadsWithParenNumber(t) ==
    \E k \in 1..Len(t) :
        /\ \A i \in 1..k : t[i] \in DigitChars
        /\ Len(t) >= k + 2 /\ t[k + 1] = ")" /\ t[k + 2] \in Whitespace
\* t starts with two capitalized words, a comma and whitespace
LeadsWithNames(t) ==
    /\ t # <<>> /\ t[1] \in UpperChars
    /\ \E a \in 2..Len(t) :
          /\ \A i \in 2..a : t[i] \in LowerChars
          /\ \E b \in (a + 1)..Len(t) :
                /\ \A i \in (a + 1)..b : t[i] \in Whitespace
                /\ Len(t) > b /\ t[b + 1] \in UpperChars
                /\ \E c \in (b + 2)..Len(t) :
                      /\ \A i \in (b + 2)..c : t[i] \in LowerChars
                      /\ Len(t) >= c + 2 /\ t[c + 1] = "," /\ t[c + 2] \in Whitespace
ListItemSignal(t) ==
    \/ Cardinality({i \in 1..Len(t) : t[i] = ","}) >= 2
    \/ (Len(t) >= 2 /\ t[1] = "-" /\ t[2] \in Whitespace)
    \/ LeadsWithParenNumber(t)
    \/ LeadsWithNames(t)
S1(r) == r.is_larger
S2(r) == Len(Strip(r.text)) \in 15..80
S3(r) ==
    LET t == Strip(r.text)
    IN  \/ (t # <<>> /\ t[Len(t)] = ":")
        \/ (Len(t) < 40 /\ \A i \in 1..Len(t) : t[i] # ",")
S4(r) == ~ListItemSignal(Strip(r.text))
Signals(r) ==
    Cardinality({k \in 1..4 : \/ (k = 1 /\ S1(r)) \/ (k = 2 /\ S2(r))
                              \/ (k = 3 /\ S3(r)) \/ (k = 4 /\ S4(r))})

CommaOrBulletItem(t) ==
    \/ Cardinality({i \in 1..Len(t) : t[i] = ","}) >= 2
    \/ (Len(t) >= 2 /\ t[1] = "-" /\ t[2] = SP)

OtherSignals(r) ==
    Cardinality({k \in 1..3 : \/ (k = 1 /\ S1(r)) \/ (k = 2 /\ S2(r)) \/ (k = 3 /\ S3(r))})

C16_MergeConditions ==
    lines_pc = "compared" =>
        LET p == Strip(prev.text)
            c == Strip(curr.text)
        IN  should_merge <=>
                /\ prev.page = curr.page
                /\ prev.is_bold = curr.is_bold
                /\ prev.font_size - curr.font_size \in -1..1
                /\ Len(p) >= 15
                /\ ~(p # <<>> /\ p[Len(p)] \in {".", ":", "!", "?", ";"})
                /\ \/ (c # <<>> /\ c[1] \in LowerChars)
                   \/ \E w \in { <<"a", "n", "d", SP>>, <<"o", "r", SP>>,
                                 <<"t", "h", "e", SP>>, <<"t", "o", SP>>,
                                 <<"o", "f", SP>>, <<"i", "n", SP>>,
                                 <<"f", "o", "r", SP>>, <<"w", "i", "t", "h", SP>> } :
                         Len(c) >= Len(w) /\ SubSeq(c, 1, Len(w)) = w

\* a merge at the limits: fonts one point apart, a previous line of exactly
\* 15 characters
C16_Witness ==
    /\ lines_pc = "compared"
    /\ should_merge
    /\ curr.font_size = prev.font_size + 1
    /\ Len(Strip(prev.text)) = 15

(***************************************************************************)
(* C17. Line reconstruction is idempotent: reconstructing its own result   *)
(* returns it record for record, and no merge fires between two records    *)
(* the first pass left adjacent.                                           *)
(***************************************************************************)
C17_Idempotent ==
    /\ lines_pc = "again" => reconstructed_again = reconstructed
    /\ lines_pc \in {"reconstructed", "again"} =>
          \A i \in 1..(Len(reconstructed) - 1) :
              ~ShouldMergeLines(reconstructed[i], reconstructed[i + 1])

\* a second pass over two records, the second made of two merged lines
C17_Witness ==
    /\ lines_pc = "again"
    /\ Len(formatted_blocks) = 3
    /\ Len(reconstructed) = 2
    /\ reconstructed[2].text = formatted_blocks[2].text \o <<SP>> \o formatted_blocks[3].text
    /\ reconstructed_again = reconstructed

(***************************************************************************)
(* C18. The linearizer converts each line on its own.  A line that is a    *)
(* number of three, two or one parts, then the dot (required after a       *)
(* one-part number), then whitespace and a title that looks like a header, *)
(* becomes the heading '#### N T', '### N T' or '## N. T' of the captured  *)
(* number N and title T; a numbered line whose title does not look like a  *)
(* header, a line that starts with '##' and every other line are emitted   *)
(* unchanged.                                                              *)
(***************************************************************************)
\* n is a number of the given count of parts: digits, joined by dots
IsSectionNumber(n, parts) ==
    LET pieces == SplitOn(n, <<".">>)
    IN  /\ Len(pieces) = parts
        /\ \A i \in 1..parts :
              pieces[i] # <<>> /\ \A k \in 1..Len(pieces[i]) : pieces[i][k] \in DigitChars

\* the ways to read the line as a number of the given parts, the dot
\* (required after a one-part number), whitespace and a title
NumberedReadings(line, parts) ==
    LET cuts == { c \in [p : 1..Len(line), d : 0..1, g : 1..Len(line)] :
                    /\ c.p + c.d + c.g < Len(line)
                    /\ IsSectionNumber(Take(line, c.p), parts)
                    /\ (c.d = 1 => line[c.p + 1] = ".")
                    /\ (parts = 1 => c.d = 1)
                    /\ \A i \in 1..c.g : line[c.p + c.d + i] \in Whitespace
                    /\ line[c.p + c.d + c.g + 1] \notin Whitespace }
    IN  { [parts  |-> parts,
           number |-> Take(line, c.p),
           title  |-> Drop(line, c.p + c.d + c.g)] : c \in cuts }

HeadingMarker(parts) ==
    IF parts = 3 THEN <<"#", "#", "#", "#">>
    ELSE IF parts = 2 THEN <<"#", "#", "#">> ELSE <<"#", "#">>

\* what the line is to become
LinearizedLine(line) ==
    LET good == { h \in UNION { NumberedReadings(line, parts) : parts \in 1..3 } :
                    IsLikelySectionHeader(h.title) }
    IN  IF good = {} THEN line
        ELSE LET h == CHOOSE g \in good : \A o \in good : o.parts <= g.parts
             IN  HeadingMarker(h.parts) \o <<SP>> \o h.number
                     \o (IF h.parts = 1 THEN <<".">> ELSE <<>>) \o <<SP>> \o h.title

C18_LinearizerLines ==
    lines_pc = "linearized" =>
        LET lines == SplitOn(linearized.text, <<NL>>)
        IN  SplitOn(linearized.markdown, <<NL>>) =
                [i \in 1..Len(lines) |-> LinearizedLine(lines[i])]

\* a heading of depth 2 made of a line with the dot after its number, next
\* to a numbered line that stays as it is
C18_Witness ==
    /\ lines_pc = "linearized"
    /\ linearized.text = <<"1", ".", "1", ".", SP, "B", NL, "1", ".", SP, "A", "a">>
    /\ linearized.markdown =
          <<"#", "#", "#", SP, "1", ".", "1", SP, "B", NL, "1", ".", SP, "A", "a">>

(***************************************************************************)
(* C19 as stated: in section-aware mode every chunk whose metadata has a   *)
(* subsection key is, or is preceded in the returned list by, a chunk      *)
(* whose metadata has a section key, also when the first heading of the    *)
(* document is of level 2 or 3.                                            *)
(***************************************************************************)
C19_Original ==
    SectionAwarePath =>
        \A i \in 1..Len(Chunks) :
            Has(Chunks[i].metadata, "subsection") =>
                \E j \in 1..i : Has(Chunks[j].metadata, "section")

(***************************************************************************)
(* C20 as stated: after section-aware chunking every chunk's metadata has  *)
(* section_hierarchy, the ' > '-joined list of 'Section: X', 'Subsection:  *)
(* Y', 'Sub-subsection: Z' for the levels present in the chunk's metadata, *)
(* in that order, also for a chunk of text before the first heading.       *)
(***************************************************************************)
HierarchyOf(m) ==
    Join((IF Has(m, "section")
          THEN << <<"S", "e", "c", "t", "i", "o", "n", ":", SP>> \o m["section"] >>
          ELSE <<>>)
         \o (IF Has(m, "subsection")
             THEN << <<"S", "u", "b", "s", "e", "c", "t", "i", "o", "n", ":", SP>>
                        \o m["subsection"] >>
             ELSE <<>>)
         \o (IF Has(m, "subsubsection")
             THEN << <<"S", "u", "b", "-", "s", "u", "b", "s", "e", "c", "t", "i", "o", "n",
                       ":", SP>> \o m["subsubsection"] >>
             ELSE <<>>),
         <<SP, ">", SP>>)

C20_Original ==
    SectionAwarePath =>
        \A i \in 1..Len(Chunks) :
            /\ Has(Chunks[i].metadata, "section_hierarchy")
            /\ Chunks[i].metadata["section_hierarchy"] = HierarchyOf(Chunks[i].metadata)


(***************************************************************************)
(* Fallback mode and heading markers.                                      *)
(***************************************************************************)
\* a line with its heading marker (and the blanks after it) taken off
WithoutMarker(line) ==
    LET h == HeaderIndex(Strip(line))
    IN  IF h = 0 THEN line
        ELSE Strip(Drop(Strip(line), Len(HeadersToSplitOn[h].sep)))
\* the text with every heading marker stripped
StripMarkers(t) ==
    LET lines == SplitOn(t, <<NL>>)
    IN  Join([i \in 1..Len(lines) |-> WithoutMarker(lines[i])], <<NL>>)
HasMarkers(t) ==
    LET lines == SplitOn(t, <<NL>>)
    IN  \E i \in 1..Len(lines) : IsHeadingLine(Strip(lines[i]))
\* the body text of each chunk, in order: the chunk's text without its
\* heading markers; a chunk of markers only has no body text
BodyTexts(chunks) ==
    LET bodies == [i \in 1..Len(chunks) |-> Strip(StripMarkers(chunks[i].text))]
    IN  SelectSeq(bodies, LAMBDA b : b # <<>>)

(***************************************************************************)
(* C21 as stated: with use_section_awareness = false a text with heading   *)
(* markers is cut at the same places of its body text as the same text     *)
(* with the markers stripped, under the same configuration.                *)
(***************************************************************************)
C21_Original ==
    (SizeBasedPath /\ ~chunker.use_section_awareness /\ HasMarkers(text)
        /\ ~outcome.raised) =>
        LET stripped == ChunkCall(chunker, StripMarkers(text), metadata, FALSE)
        IN  /\ ~stripped.raised
            /\ BodyTexts(Chunks) = BodyTexts(stripped.chunks)

\* the texts of the chunks, in order
TextsOf(chunks) == [i \in 1..Len(chunks) |-> chunks[i].text]

(***************************************************************************)
(* C22 as stated: the fallback chunker splits as the force-split of an     *)
(* oversized section does, with the effective overlap                      *)
(* min(chunk_overlap, max_chunk_size - 1): wherever the force-split of the *)
(* text succeeds, fallback chunking succeeds and yields the same pieces.   *)
(***************************************************************************)
C22_Original ==
    SizeBasedPath =>
        LET forced == SplitLargeChunk(chunker, text, BaseMetadata(metadata))
        IN  ~forced.raised =>
                /\ ~outcome.raised
                /\ TextsOf(Chunks) = TextsOf(forced.chunks)
                /\ \A i \in 1..Len(outcome.splitters) :
                      outcome.splitters[i].chunk_overlap = SplitOverlap(chunker)

(***************************************************************************)
(* The linearizer's header check, read by words.                           *)
(***************************************************************************)
\* the continuation words: articles, prepositions and conjunctions
ContinuationWords ==
    { <<"a", "n", "d">>, <<"o", "r">>, <<"t", "h", "e">>, <<"a">>,
      <<"a", "n">>, <<"o", "f">>, <<"t", "o">>, <<"i", "n">> }
\* the last word of a stripped text: what follows its last whitespace
LastWord(t) ==
    LET blanks == { i \in 1..Len(t) : t[i] \in Whitespace }
    IN  IF blanks = {} THEN t
        ELSE Drop(t, CHOOSE i \in blanks : \A j \in blanks : j <= i)
\* the header check with the continuation list read as a list of words
LooksLikeHeaderByWords(title) ==
    LET t == Strip(title)
    IN  /\ t # <<>>
        /\ t[1] \in UpperChars
        /\ Len(t) <= MaxTitleLength
        /\ LastWord(t) \notin ContinuationWords
        /\ ~(\E w \in ContinuationPhrases : EndsWith(Lower(t), w))
\* the titles the numbered-heading patterns capture in the line
CapturedTitles(line) ==
    { h.title : h \in UNION { NumberedReadings(line, parts) : parts \in 1..3 } }

(***************************************************************************)
(* C23 as stated: a numbered line is promoted to a heading exactly when a  *)
(* captured title, stripped, is non-empty, starts with an uppercase        *)
(* letter, is at most 100 long, has a last word that is none of and, or,   *)
(* the, a, an, of, to, in, and does not end with a continuation phrase.    *)
(***************************************************************************)
C23_Original ==
    lines_pc = "linearized" =>
        LET lines    == SplitOn(linearized.text, <<NL>>)
            markdown == SplitOn(linearized.markdown, <<NL>>)
        IN  /\ Len(markdown) = Len(lines)
            /\ \A i \in 1..Len(lines) :
                  (markdown[i] # lines[i]) <=>
                      \E title \in CapturedTitles(lines[i]) : LooksLikeHeaderByWords(title)

(***************************************************************************)
(* The heading path of a chunk.                                            *)
(***************************************************************************)
HeadingPathKeys == {"section", "subsection", "subsubsection"}
\* the level of a heading-path key: 1 is the highest
LevelOf(key) == IF key = "section" THEN 1 ELSE IF key = "subsection" THEN 2 ELSE 3
\* the heading path in a chunk's metadata
HeadingPath(m) ==
    [k \in DOMAIN m \cap HeadingPathKeys |-> m[k]]
\* the path in scope after a heading line: the headings of a higher level
\* stay, the line's title is the heading of its own level
ScopeAfter(path, line) ==
    LET h     == HeaderIndex(line)
        key   == HeadersToSplitOn[h].name
        title == Strip(Drop(line, Len(HeadersToSplitOn[h].sep)))
    IN  [k \in {j \in DOMAIN path : LevelOf(j) < LevelOf(key)} \cup {key} |->
            IF k = key THEN title ELSE path[k]]
\* the path in scope at each body line of the text, in order
RECURSIVE ScopePaths(_, _, _)
ScopePaths(lines, path, acc) ==
    IF lines = <<>> THEN acc
    ELSE LET line == Head(lines)
         IN  IF IsHeadingLine(line)
             THEN ScopePaths(Tail(lines), ScopeAfter(path, line), acc)
             ELSE IF line = <<>>
             THEN ScopePaths(Tail(lines), path, acc)
             ELSE ScopePaths(Tail(lines), path, Append(acc, path))
\* a sequence without the repetitions of an element next to itself
RECURSIVE Runs(_)
Runs(s) ==
    IF Len(s) <= 1 THEN s
    ELSE IF s[1] = s[2] THEN Runs(Tail(s)) ELSE <<s[1]>> \o Runs(Tail(s))

(***************************************************************************)
(* C24. The heading path of a chunk holds, for each level, the most recent *)
(* heading of that level since the most recent heading of a higher level:  *)
(* a heading of level L discards the recorded headings of level >= L, and  *)
(* a level without a heading in scope is absent from the metadata.  The    *)
(* paths of the chunks, in order, are the paths in scope at the body lines *)
(* of the text, in order.                                                  *)
(***************************************************************************)
C24_HeadingPath ==
    (SectionAwarePath /\ ~outcome.raised) =>
        Runs([i \in 1..Len(Chunks) |-> HeadingPath(Chunks[i].metadata)]) =
            Runs(ScopePaths(MarkdownLines(text), EmptyMap, <<>>))

\* a chunk under a new section that follows a chunk with a subsection, and
\* a chunk under a subsubsection that directly follows a section
C24_Witness ==
    /\ SectionAwarePath /\ ~outcome.raised
    /\ \E i, j \in 1..Len(Chunks) :
          /\ i < j
          /\ Has(Chunks[i].metadata, "subsection")
          /\ Has(Chunks[j].metadata, "section")
          /\ ~Has(Chunks[j].metadata, "subsection")
    /\ \E k \in 1..Len(Chunks) :
          /\ Has(Chunks[k].metadata, "section")
          /\ Has(Chunks[k].metadata, "subsubsection")
          /\ ~Has(Chunks[k].metadata, "subsection")

(***************************************************************************)
(* The caller's metadata in the chunks.                                    *)
(***************************************************************************)
\* chunk m holds the pair of key k of the base metadata
KeepsPair(m, base, k) == Has(m, k) /\ m[k] = base[k]
\* the keys the chunker itself sets in a chunk of the call
ChunkerKeys(chunk) ==
    IF IsFallbackChunk(chunk) THEN {"chunk_index", "is_fallback_chunk"}
    ELSE HeadingPathKeys \cup {"section_hierarchy", "is_split_chunk"}
             \cup (IF IsSplitChunk(chunk) THEN {"chunk_part"} ELSE {})

Reconstructed == lines_pc \in {"reconstructed", "again"}
\* the header classifier's decision on a record
ClassifiedHeader(r) == PassesGate(r) /\ Signals(r) >= HeaderScore

(***************************************************************************)
(* C26. Every record of the output of line reconstruction, a record        *)
(* flushed in the middle of the input and the final buffer alike, has      *)
(* is_likely_header equal to the header classifier's decision on the       *)
(* record as emitted, whatever is_likely_header it had on input.           *)
(***************************************************************************)
C26_OutputReclassified ==
    Reconstructed =>
        \A i \in 1..Len(reconstructed) :
            reconstructed[i].is_likely_header = ClassifiedHeader(reconstructed[i])

\* two lines that came in as no headers and come out as headers, the first
\* flushed in the middle and the second the final buffer
C26_Witness ==
    /\ Reconstructed
    /\ Len(formatted_blocks) = 2 /\ Len(reconstructed) = 2
    /\ \A i \in 1..2 :
          /\ reconstructed[i].text = formatted_blocks[i].text
          /\ ~formatted_blocks[i].is_likely_header
          /\ reconstructed[i].is_likely_header

(***************************************************************************)
(* C27 as stated: every record of the output of line reconstruction has    *)
(* is_all_caps true if and only if its (possibly merged) text is uppercase *)
(* and longer than 3 characters.                                           *)
(***************************************************************************)
C27_Original ==
    Reconstructed =>
        \A i \in 1..Len(reconstructed) :
            reconstructed[i].is_all_caps =
                (IsUpperStr(reconstructed[i].text)
                    /\ Len(reconstructed[i].text) > MinAllCapsLength)

\* every record of the run is of the output record's page
SamePage(run, r) == \A i \in 1..Len(run) : run[i].page = r.page
\* the input records can be cut into one run of consecutive records for each
\* output record, the run's texts joined by spaces being the record's text
\* and the run's records being of the record's page
RECURSIVE MadeOfRunsOfAPage(_, _)
MadeOfRunsOfAPage(blocks, out) ==
    IF out = <<>> THEN blocks = <<>>
    ELSE \E k \in 1..Len(blocks) :
            /\ Join([i \in 1..k |-> blocks[i].text], <<SP>>) = out[1].text
            /\ SamePage(Take(blocks, k), out[1])
            /\ MadeOfRunsOfAPage(Drop(blocks, k), Tail(out))

(***************************************************************************)
(* C28. In the output of line reconstruction the fragments merged into one *)
(* record all come from the page of the record's page attribute, however   *)
(* many merges follow each other: no record holds text of two pages.       *)
(***************************************************************************)
C28_OnePagePerRecord ==
    Reconstructed => MadeOfRunsOfAPage(formatted_blocks, reconstructed)

\* two lines of page 1 merged, a line of page 2 that would continue them
\* kept apart
C28_Witness ==
    /\ Reconstructed
    /\ Len(formatted_blocks) = 3 /\ Len(reconstructed) = 2
    /\ formatted_blocks[1].page = 1 /\ formatted_blocks[2].page = 1
    /\ formatted_blocks[3].page = 2
    /\ reconstructed[1].text = formatted_blocks[1].text \o <<SP>> \o formatted_blocks[2].text
    /\ reconstructed[1].page = 1 /\ reconstructed[2].page = 2
    /\ ShouldMergeLinesAnyPage(reconstructed[1], reconstructed[2])

(***************************************************************************)
(* C29. Line reconstruction neither loses, duplicates nor reorders text:   *)
(* the output has at most as many records as the input, and the output     *)
(* texts joined by single spaces are the input texts joined by single      *)
(* spaces, in the original order.                                          *)
(***************************************************************************)
C29_TextPreserved ==
    Reconstructed =>
        /\ Len(reconstructed) <= Len(formatted_blocks)
        /\ Join([i \in 1..Len(reconstructed) |-> reconstructed[i].text], <<SP>>) =
              Join([i \in 1..Len(formatted_blocks) |-> formatted_blocks[i].text], <<SP>>)

\* three lines merged into one record
C29_Witness ==
    /\ Reconstructed
    /\ Len(formatted_blocks) = 3 /\ Len(reconstructed) = 1
    /\ reconstructed[1].text =
          formatted_blocks[1].text \o <<SP>> \o formatted_blocks[2].text
              \o <<SP>> \o formatted_blocks[3].text
    /\ formatted_blocks[2].text # formatted_blocks[3].text

(***************************************************************************)
(* The pipeline after a failed extraction.                                 *)
(***************************************************************************)
\* process_pdf has ended, and the extractor it called returned success =
\* false
ExtractionFailed ==
    /\ pipeline.entry # "none"
    /\ pipeline.extracted
    /\ ~pipeline.extraction.success

(***************************************************************************)
(* C30 as stated: when the extractor returns a result with success =       *)
(* false, process_pdf performs no chunking, embedding or store insertion   *)
(* (no document record is created) and reports the failure to the caller.  *)
(***************************************************************************)
C30_Original ==
    ExtractionFailed =>
        /\ ~pipeline.chunked
        /\ ~pipeline.embedded
        /\ store = EmptyStore
        /\ pipeline.report = "raised"

=============================================================================
